---- MODULE Spec2Model ----
(***************************************************************************)
(* A model of the command line parser of src/src (clp.hh declarations,     *)
(* dodo.inl error-carrying parse functions, parse_traits.hh conversions).  *)
(*                                                                         *)
(* Text is modelled by TLA+ strings, std::optional<T> by a sequence of     *)
(* length 0 (nullopt) or 1, expected<T, std::string> by a record with the  *)
(* fields ok, value and error, and a parse_result_type by the sequence of  *)
(* its fields in declaration order.                                        *)
(***************************************************************************)
EXTENDS Integers, Sequences, FiniteSets, TLC

VARIABLES
    parser,                 \* the parser value under test (its declarations)
    args,                   \* the token list handed to parse
    pc,                     \* position of the running parse call
    i,                      \* loop index of CompoundOption::parse
    option_parse_results,   \* the tuple of option_parse_result of CompoundOption::parse
    claimed_by,             \* per scanned token, the option that parsed it
    ret,                    \* what the parse call returned
    earlier,                \* the first parse call made on the parser, once it
                            \* has been followed by another: its tokens and what it
                            \* returned
    calls                   \* per declared member, the log of the parse_impl and
                            \* predicate invocations made to resolve it; per member
                            \* parser, the log of the parse calls made on it

vars == <<parser, args, pc, i, option_parse_results, claimed_by, ret, earlier, calls>>

(***************************************************************************)
(* Bounds of the model.                                                    *)
(***************************************************************************)
MaxSingleArgs == 2      \* tokens handed to a single option
MaxArgs == 3            \* tokens handed to a compound parser
MaxPatterns == 2        \* patterns attached to the option whose match is examined
MaxMembers == 2         \* options (arguments) combined in a compound
MaxCommands == 2        \* commands combined in a CommandSelector
MaxDecorators == 3      \* decorators attached to a declaration

(***************************************************************************)
(* std::string_view operations (0-based positions as in the source).       *)
(***************************************************************************)
CharAt(text, pos) == SubSeq(text, pos + 1, pos + 1)

starts_with(text, prefix) ==
    Len(prefix) <= Len(text) /\ SubSeq(text, 1, Len(prefix)) = prefix

substr(text, pos) == SubSeq(text, pos + 1, Len(text))

RECURSIVE Concat(_)
Concat(parts) ==
    IF parts = <<>> THEN "" ELSE Head(parts) \o Concat(Tail(parts))

(***************************************************************************)
(* Values of the value types.  One record shape for every type so that     *)
(* results of differently typed options can be compared.                   *)
(***************************************************************************)
IntV(type, n) == [t |-> type, n |-> n, s |-> ""]
BoolV(b) == [t |-> "bool", n |-> IF b THEN 1 ELSE 0, s |-> ""]
StrV(type, s) == [t |-> type, n |-> 0, s |-> s]

(***************************************************************************)
(* expected<T, std::string> and Error<std::string>.                        *)
(***************************************************************************)
Expected(value) == [ok |-> TRUE, value |-> value, error |-> ""]
Error(message) == [ok |-> FALSE, value |-> <<>>, error |-> message]

make_error(parts) == Error(Concat(parts))

\* ValueType(t): the explicit conversion of an attached default or implicit
\* value (for instance a std::string_view) to the option's value_type.
make_parse_result(value_type, t) == [t EXCEPT !.t = value_type]

(***************************************************************************)
(* parse_traits<T>::parse                                                  *)
(***************************************************************************)
INT16_MAX == 32767
INT32_MAX == 2147483647

IsIntegerType(type) == type \in {"int16_t", "int"}
TypeMax(type) == IF type = "int16_t" THEN INT16_MAX ELSE INT32_MAX
TypeMin(type) == -TypeMax(type) - 1

IsDigit(c) == c \in {"0", "1", "2", "3", "4", "5", "6", "7", "8", "9"}

DigitValue(c) ==
    CASE c = "0" -> 0 [] c = "1" -> 1 [] c = "2" -> 2 [] c = "3" -> 3
      [] c = "4" -> 4 [] c = "5" -> 5 [] c = "6" -> 6 [] c = "7" -> 7
      [] c = "8" -> 8 [] c = "9" -> 9

\* std::from_chars on the digits of text from position pos on.  The number is
\* accumulated as a non-positive number (so that the minimum of the type is
\* reached without overflow); lowest is the least value the accumulator may
\* take.  ptr is the position of the first character that is not consumed.
RECURSIVE from_chars_digits(_, _, _, _)
from_chars_digits(text, pos, acc, lowest) ==
    IF pos >= Len(text) \/ ~IsDigit(CharAt(text, pos))
    THEN [ptr |-> pos, acc |-> acc, in_range |-> TRUE]
    ELSE LET d == DigitValue(CharAt(text, pos))
         IN  IF acc < (lowest + d + 9) \div 10
             THEN [ptr |-> pos, acc |-> acc, in_range |-> FALSE]
             ELSE from_chars_digits(text, pos + 1, acc * 10 - d, lowest)

charconv_to_string_parse_traits_parse(type, text) ==
    LET negative == Len(text) > 0 /\ CharAt(text, 0) = "-"
        first == IF negative THEN 1 ELSE 0
        lowest == IF negative THEN TypeMin(type) ELSE -TypeMax(type)
        r == from_chars_digits(text, first, 0, lowest)
    IN  IF r.ptr = first \/ ~r.in_range \/ r.ptr # Len(text)
        THEN <<>>
        ELSE <<IntV(type, IF negative THEN r.acc ELSE -r.acc)>>

parse_traits_bool_parse(text) ==
    IF text = "true" THEN <<BoolV(TRUE)>>
    ELSE IF text = "false" THEN <<BoolV(FALSE)>>
    ELSE <<>>

parse_traits_string_parse(type, text) == <<StrV(type, text)>>

parse_traits_parse(type, text) ==
    IF IsIntegerType(type) THEN charconv_to_string_parse_traits_parse(type, text)
    ELSE IF type = "bool" THEN parse_traits_bool_parse(text)
    ELSE parse_traits_string_parse(type, text)

\* The custom parser of the test "A custom parser may be given to an option".
on_off_boolean_parser(text) ==
    IF text = "on" THEN <<BoolV(TRUE)>>
    ELSE IF text = "off" THEN <<BoolV(FALSE)>>
    ELSE <<>>

(***************************************************************************)
(* Declarations.  An option is the record of what its decorators attached: *)
(* patterns and checks in attachment order.                                *)
(***************************************************************************)
\* Option<T>(type_name_), as clp_Opt(type, var) constructs it from #type.
Option(var, type, type_name_) ==
    [var |-> var, value_type |-> type, name |-> "", type_name |-> type_name_,
     patterns |-> <<>>, default_value |-> <<>>, implicit_value |-> <<>>,
     checks |-> <<>>, custom_parser |-> "none"]

clp_Opt(type, var) == Option(var, type, type)

\* PositionalArgument<T>(name_, type_name_).
PositionalArgument(var, type, name_, type_name_) ==
    [var |-> var, value_type |-> type, name |-> name_, type_name |-> type_name_,
     patterns |-> <<>>, default_value |-> <<>>, implicit_value |-> <<>>,
     checks |-> <<>>, custom_parser |-> "none"]

\* clp_Arg(type, var, name) expands to PositionalArgument<...>(#type, name).
clp_Arg(type, var, name) == PositionalArgument(var, type, type, name)

\* The decorators: operator [], default_to, implicitly, check, custom_parser.
WithPattern(base, pattern) == [base EXCEPT !.patterns = Append(@, pattern)]
WithDefaultValue(base, default_value_) == [base EXCEPT !.default_value = <<default_value_>>]
WithImplicitValue(base, implicit_value_) == [base EXCEPT !.implicit_value = <<implicit_value_>>]
WithCheck(base, predicate_, error_message_) ==
    [base EXCEPT !.checks = Append(@, [predicate |-> predicate_,
                                       error_message |-> error_message_])]
WithCustomParser(base, parser_function) == [base EXCEPT !.custom_parser = parser_function]

\* clp_Flag(var): clp_Opt(bool, var).default_to(false).implicitly(true)
clp_Flag(var) ==
    WithImplicitValue(WithDefaultValue(clp_Opt("bool", var), BoolV(FALSE)), BoolV(TRUE))

HasDefaultValue(decl) == decl.default_value # <<>>
HasImplicitValue(decl) == decl.implicit_value # <<>>
HasValidationCheck(decl) == decl.checks # <<>>

\* The predicates of the tests "Checks on a pattern ..." and "Multiple checks".
validation_predicate(check, value) ==
    CASE check.predicate = "positive" -> value.n > 0
      [] check.predicate = "even" -> value.n % 2 = 0

\* WithCheck_validate with the layer's own predicate evaluated before the
\* base's.
RECURSIVE WithCheck_validate_own_predicate_first(_, _, _)
WithCheck_validate_own_predicate_first(checks, layer, t) ==
    LET own == [fn |-> "predicate", text |-> checks[layer].error_message, val |-> <<t>>]
        base == IF layer > 1
                THEN WithCheck_validate_own_predicate_first(checks, layer - 1, t)
                ELSE [message |-> <<>>, calls |-> <<>>]
    IN  IF ~validation_predicate(checks[layer], t)
        THEN [message |-> <<checks[layer].error_message>>, calls |-> <<own>>]
        ELSE [message |-> base.message, calls |-> <<own>> \o base.calls]

\* WithCheck<Base, Predicate>::validate of the layer-th attached check.
RECURSIVE WithCheck_validate(_, _, _)
WithCheck_validate(checks, layer, t) ==
    LET base == IF layer > 1
                THEN WithCheck_validate(checks, layer - 1, t)
                ELSE [message |-> <<>>, calls |-> <<>>]
        own == [fn |-> "predicate", text |-> checks[layer].error_message, val |-> <<t>>]
    IN  IF base.message # <<>>
        THEN base
        ELSE [message |-> IF validation_predicate(checks[layer], t)
                          THEN <<>>
                          ELSE <<checks[layer].error_message>>,
              calls |-> Append(base.calls, own)]

validate(decl, t) == WithCheck_validate(decl.checks, Len(decl.checks), t)

\* WithPattern_match with the layer's own pattern tried before the base's.
RECURSIVE WithPattern_match_own_pattern_first(_, _, _)
WithPattern_match_own_pattern_first(patterns, layer, text) ==
    LET pattern == patterns[layer]
        own == IF starts_with(text, pattern)
               THEN IF Len(text) = Len(pattern)
                    THEN <<"">>
                    ELSE IF CharAt(text, Len(pattern)) = "="
                         THEN <<substr(text, Len(pattern) + 1)>>
                         ELSE <<>>
               ELSE <<>>
    IN  IF own # <<>>
        THEN own
        ELSE IF layer > 1
             THEN WithPattern_match_own_pattern_first(patterns, layer - 1, text)
             ELSE <<>>

\* WithPattern<Base>::match of the layer-th attached pattern.
RECURSIVE WithPattern_match(_, _, _)
WithPattern_match(patterns, layer, text) ==
    LET matched == IF layer > 1
                   THEN WithPattern_match(patterns, layer - 1, text)
                   ELSE <<>>
        pattern == patterns[layer]
    IN  IF matched # <<>>
        THEN matched
        ELSE IF starts_with(text, pattern)
             THEN IF Len(text) = Len(pattern)
                  THEN <<"">>
                  ELSE IF CharAt(text, Len(pattern)) = "="
                       THEN <<substr(text, Len(pattern) + 1)>>
                       ELSE <<>>
             ELSE <<>>

match(decl, text) == WithPattern_match(decl.patterns, Len(decl.patterns), text)

RECURSIVE WithPattern_patterns_to_string(_, _)
WithPattern_patterns_to_string(patterns, layer) ==
    IF layer > 1
    THEN WithPattern_patterns_to_string(patterns, layer - 1) \o ", " \o patterns[layer]
    ELSE patterns[layer]

patterns_to_string(decl) ==
    WithPattern_patterns_to_string(decl.patterns, Len(decl.patterns))

\* Option<T>::parse_impl, hidden by WithCustomParser<Base, F>::parse_impl.
parse_impl(decl, argument_text) ==
    IF decl.custom_parser = "on_off"
    THEN on_off_boolean_parser(argument_text)
    ELSE parse_traits_parse(decl.value_type, argument_text)

(***************************************************************************)
(* OptionInterface<Base>::parse.  Both return the result and the log of    *)
(* the parse_impl and predicate invocations they made.                     *)
(***************************************************************************)
\* OptionInterface_parse without the implicit value short-circuit.
OptionInterface_parse_no_implicit(decl, matched_arg) ==
    LET parse_result == parse_impl(decl, matched_arg)
        called == <<[fn |-> "parse_impl", text |-> matched_arg, val |-> <<>>]>>
    IN  IF parse_result = <<>>
        THEN [res |-> make_error(<<"Could not convert argument \"", matched_arg,
                                   "\" to type ", decl.type_name>>),
              calls |-> called]
        ELSE IF HasValidationCheck(decl)
             THEN LET v == validate(decl, parse_result[1])
                  IN  IF v.message # <<>>
                      THEN [res |-> make_error(<<"Validation check failed for option ",
                                                 patterns_to_string(decl),
                                                 "with argument \"", matched_arg,
                                                 "\":\n\t", v.message[1]>>),
                            calls |-> called \o v.calls]
                      ELSE [res |-> Expected(parse_result), calls |-> called \o v.calls]
             ELSE [res |-> Expected(parse_result), calls |-> called]

\* OptionInterface_parse that falls back to the default value when the text
\* does not convert.
OptionInterface_parse_default_on_failure(decl, matched_arg) ==
    IF HasImplicitValue(decl) /\ matched_arg = ""
    THEN [res |-> Expected(<<make_parse_result(decl.value_type, decl.implicit_value[1])>>),
          calls |-> <<>>]
    ELSE
      LET parse_result == parse_impl(decl, matched_arg)
          called == <<[fn |-> "parse_impl", text |-> matched_arg, val |-> <<>>]>>
      IN  IF parse_result = <<>>
          THEN IF HasDefaultValue(decl)
               THEN [res |-> Expected(<<make_parse_result(decl.value_type,
                                                          decl.default_value[1])>>),
                     calls |-> called]
               ELSE [res |-> make_error(<<"Could not convert argument \"", matched_arg,
                                          "\" to type ", decl.type_name>>),
                     calls |-> called]
          ELSE IF HasValidationCheck(decl)
               THEN LET v == validate(decl, parse_result[1])
                    IN  IF v.message # <<>>
                        THEN [res |-> make_error(<<"Validation check failed for option ",
                                                   patterns_to_string(decl),
                                                   "with argument \"", matched_arg,
                                                   "\":\n\t", v.message[1]>>),
                              calls |-> called \o v.calls]
                        ELSE [res |-> Expected(parse_result), calls |-> called \o v.calls]
               ELSE [res |-> Expected(parse_result), calls |-> called]

\* OptionInterface_parse that validates the implicit value as it validates a
\* converted one.
OptionInterface_parse_validated_implicit(decl, matched_arg) ==
    LET implicit == HasImplicitValue(decl) /\ matched_arg = ""
        parse_result == IF implicit
                        THEN <<make_parse_result(decl.value_type, decl.implicit_value[1])>>
                        ELSE parse_impl(decl, matched_arg)
        called == IF implicit THEN <<>>
                  ELSE <<[fn |-> "parse_impl", text |-> matched_arg, val |-> <<>>]>>
    IN  IF parse_result = <<>>
        THEN [res |-> make_error(<<"Could not convert argument \"", matched_arg,
                                   "\" to type ", decl.type_name>>),
              calls |-> called]
        ELSE IF HasValidationCheck(decl)
             THEN LET v == validate(decl, parse_result[1])
                  IN  IF v.message # <<>>
                      THEN [res |-> make_error(<<"Validation check failed for option ",
                                                 patterns_to_string(decl),
                                                 "with argument \"", matched_arg,
                                                 "\":\n\t", v.message[1]>>),
                            calls |-> called \o v.calls]
                      ELSE [res |-> Expected(parse_result), calls |-> called \o v.calls]
             ELSE [res |-> Expected(parse_result), calls |-> called]

OptionInterface_parse(decl, matched_arg) ==
    IF HasImplicitValue(decl) /\ matched_arg = ""
    THEN [res |-> Expected(<<make_parse_result(decl.value_type, decl.implicit_value[1])>>),
          calls |-> <<>>]
    ELSE
      LET parse_result == parse_impl(decl, matched_arg)
          called == <<[fn |-> "parse_impl", text |-> matched_arg, val |-> <<>>]>>
      IN  IF parse_result = <<>>
          THEN [res |-> make_error(<<"Could not convert argument \"", matched_arg,
                                     "\" to type ", decl.type_name>>),
                calls |-> called]
          ELSE IF HasValidationCheck(decl)
               THEN LET v == validate(decl, parse_result[1])
                    IN  IF v.message # <<>>
                        THEN [res |-> make_error(<<"Validation check failed for option ",
                                                   patterns_to_string(decl),
                                                   "with argument \"", matched_arg,
                                                   "\":\n\t", v.message[1]>>),
                              calls |-> called \o v.calls]
                        ELSE [res |-> Expected(parse_result), calls |-> called \o v.calls]
               ELSE [res |-> Expected(parse_result), calls |-> called]

\* OptionInterface_parse_args handing the whole token, not the text that
\* match returned, to parse.
OptionInterface_parse_args_whole_token(decl, argv) ==
    IF Len(argv) = 0
    THEN IF HasDefaultValue(decl)
         THEN [res |-> Expected(<<make_parse_result(decl.value_type, decl.default_value[1])>>),
               calls |-> <<>>]
         ELSE [res |-> make_error(<<"No matching argument for option ",
                                    patterns_to_string(decl)>>),
               calls |-> <<>>]
    ELSE IF Len(argv) = 1 /\ match(decl, argv[1]) # <<>>
         THEN OptionInterface_parse(decl, argv[1])
         ELSE [res |-> make_error(<<"No matching argument for option ",
                                    patterns_to_string(decl), "\n",
                                    "Unrecognized parameter \"", argv[1], "\"">>),
               calls |-> <<>>]

OptionInterface_parse_args(decl, argv) ==
    IF Len(argv) = 0
    THEN IF HasDefaultValue(decl)
         THEN [res |-> Expected(<<make_parse_result(decl.value_type, decl.default_value[1])>>),
               calls |-> <<>>]
         ELSE [res |-> make_error(<<"No matching argument for option ",
                                    patterns_to_string(decl)>>),
               calls |-> <<>>]
    ELSE IF Len(argv) = 1 /\ match(decl, argv[1]) # <<>>
         THEN OptionInterface_parse(decl, match(decl, argv[1])[1])
         ELSE [res |-> make_error(<<"No matching argument for option ",
                                    patterns_to_string(decl), "\n",
                                    "Unrecognized parameter \"", argv[1], "\"">>),
               calls |-> <<>>]

(***************************************************************************)
(* PositionalArgumentInterface<Base>::parse                                *)
(***************************************************************************)
PositionalArgumentInterface_parse(decl, matched_arg) ==
    LET parse_result == parse_impl(decl, matched_arg)
        called == <<[fn |-> "parse_impl", text |-> matched_arg, val |-> <<>>]>>
    IN  IF parse_result = <<>>
        THEN [res |-> make_error(<<"Could not convert argument \"", matched_arg,
                                   "\" to type ", decl.type_name>>),
              calls |-> called]
        ELSE IF HasValidationCheck(decl)
             THEN LET v == validate(decl, parse_result[1])
                  IN  IF v.message # <<>>
                      THEN [res |-> make_error(<<"Validation check failed for argument ",
                                                 decl.name,
                                                 "with argument \"", matched_arg,
                                                 "\":\n\t", v.message[1]>>),
                            calls |-> called \o v.calls]
                      ELSE [res |-> Expected(parse_result), calls |-> called \o v.calls]
             ELSE [res |-> Expected(parse_result), calls |-> called]

PositionalArgumentInterface_parse_args(decl, argv) ==
    IF Len(argv) = 0
    THEN IF HasDefaultValue(decl)
         THEN [res |-> Expected(<<make_parse_result(decl.value_type, decl.default_value[1])>>),
               calls |-> <<>>]
         ELSE [res |-> make_error(<<"Missing argument ", decl.name>>), calls |-> <<>>]
    ELSE IF Len(argv) = 1
         THEN PositionalArgumentInterface_parse(decl, argv[1])
         ELSE [res |-> make_error(<<"Too many arguments.">>), calls |-> <<>>]

(***************************************************************************)
(* CompoundOption<Options...>::parse                                       *)
(***************************************************************************)
\* The option's parse result is stored as the result of the option.
try_parse_argument_store(r) == [parsed |-> TRUE, result |-> <<r.res>>, calls |-> r.calls]

\* if (auto const matched = option.match(arg)): the option parses the text.
try_parse_argument_matched(decl, matched, result) ==
    IF matched # <<>>
    THEN try_parse_argument_store(OptionInterface_parse(decl, matched[1]))
    ELSE [parsed |-> FALSE, result |-> result, calls |-> <<>>]

\* try_parse_argument without the test that the option has no result yet.
try_parse_argument_reparse(decl, arg, result) ==
    LET matched == match(decl, arg)
    IN  IF matched # <<>>
        THEN LET r == OptionInterface_parse(decl, matched[1])
             IN  [parsed |-> TRUE, result |-> <<r.res>>, calls |-> r.calls]
        ELSE [parsed |-> FALSE, result |-> result, calls |-> <<>>]

\* try_parse_argument storing the result only when the parse succeeded.
try_parse_argument_keep_success(decl, arg, result) ==
    IF result = <<>>
    THEN LET matched == match(decl, arg)
         IN  IF matched # <<>>
             THEN LET r == OptionInterface_parse(decl, matched[1])
                  IN  [parsed |-> TRUE,
                       result |-> IF r.res.ok THEN <<r.res>> ELSE result,
                       calls |-> r.calls]
             ELSE [parsed |-> FALSE, result |-> result, calls |-> <<>>]
    ELSE [parsed |-> FALSE, result |-> result, calls |-> <<>>]

\* try_parse_argument: result is the option_parse_result of this option.
try_parse_argument(decl, arg, result) ==
    IF result = <<>>
    THEN try_parse_argument_matched(decl, match(decl, arg), result)
    ELSE [parsed |-> FALSE, result |-> result, calls |-> <<>>]

\* The fold (try_parse_argument(...) || ...) of one loop iteration, from the
\* k-th option on: the options are tried in declaration order and the first
\* one that parses the argument ends the fold.  by is that option (0: none).
RECURSIVE try_parse_argument_fold(_, _, _, _)
\* The fold ending at the last option that parses the argument instead of the
\* first one.
try_parse_argument_or_last_match(options, k, arg, results, r) ==
    IF try_parse_argument_fold(options, k + 1, arg, results).by # 0
    THEN try_parse_argument_fold(options, k + 1, arg, results)
    ELSE IF r.parsed
         THEN [by |-> k, results |-> [results EXCEPT ![k] = r.result], calls |-> r.calls]
         ELSE [by |-> 0, results |-> results, calls |-> <<>>]

\* r is what try_parse_argument returned for the k-th option.
try_parse_argument_or(options, k, arg, results, r) ==
    IF r.parsed
    THEN [by |-> k, results |-> [results EXCEPT ![k] = r.result], calls |-> r.calls]
    ELSE try_parse_argument_fold(options, k + 1, arg, results)

try_parse_argument_fold(options, k, arg, results) ==
    IF k > Len(options)
    THEN [by |-> 0, results |-> results, calls |-> <<>>]
    ELSE try_parse_argument_or(options, k, arg, results,
                               try_parse_argument(options[k], arg, results[k]))

\* complete_with_default_value that leaves the result as it is.
complete_with_default_value_never(decl, result) == result

complete_with_default_value(decl, result) ==
    IF HasDefaultValue(decl) /\ result = <<>>
    THEN <<Expected(<<make_parse_result(decl.value_type, decl.default_value[1])>>)>>
    ELSE result

complete_with_default_values(options, results) ==
    [k \in 1..Len(options) |-> complete_with_default_value(options[k], results[k])]

\* CompoundOption_parse_return returning the error of the first option, in
\* declaration order, that is unresolved or failed to parse.
CompoundOption_parse_return_first_error(results) ==
    LET failing == {k \in 1..Len(results) : results[k] = <<>> \/ ~results[k][1].ok}
        first == CHOOSE k \in failing : \A j \in failing : k <= j
    IN  IF failing # {}
        THEN IF results[first] = <<>>
             THEN make_error(<<"Unmatched option">>)
             ELSE Error(results[first][1].error)
        ELSE Expected([k \in 1..Len(results) |-> results[k][1].value[1]])

\* The two checks and the return statement that follow the completion.
CompoundOption_parse_return(results) ==
    IF ~(\A k \in 1..Len(results) : results[k] # <<>>)
    THEN make_error(<<"Unmatched option">>)
    ELSE IF ~(\A k \in 1..Len(results) : results[k][1].ok)
         THEN make_error(<<"Option failed to parse">>)
         ELSE Expected([k \in 1..Len(results) |-> results[k][1].value[1]])

\* The whole call, from loop index pos (0-based) on.
RECURSIVE CompoundOption_parse_from(_, _, _, _)
\* r is what the fold returned for the token at pos.
CompoundOption_parse_next(options, argv, pos, r) ==
    IF r.by = 0
    THEN make_error(<<"Unrecognized argument \"", argv[pos + 1], "\"">>)
    ELSE CompoundOption_parse_from(options, argv, pos + 1, r.results)

CompoundOption_parse_from(options, argv, pos, results) ==
    IF pos < Len(argv)
    THEN CompoundOption_parse_next(options, argv, pos,
                                   try_parse_argument_fold(options, 1, argv[pos + 1], results))
    ELSE CompoundOption_parse_return(complete_with_default_values(options, results))

CompoundOption_parse(options, argv) ==
    CompoundOption_parse_from(options, argv, 0, [k \in 1..Len(options) |-> <<>>])

(***************************************************************************)
(* CompoundArgument<Arguments...>::parse                                   *)
(***************************************************************************)
\* std::to_string of a size_t.
RECURSIVE to_string(_)
to_string(n) ==
    LET digit == SubSeq("0123456789", (n % 10) + 1, (n % 10) + 1)
    IN  IF n < 10 THEN digit ELSE to_string(n \div 10) \o digit

\* CompoundArgument_results handing the tokens out from the end of the list.
CompoundArgument_results_from_the_end(arguments, argv) ==
    [k \in 1..Len(arguments) |->
        PositionalArgumentInterface_parse_args(
            arguments[k], IF k - 1 >= Len(argv) THEN <<>> ELSE <<argv[Len(argv) + 1 - k]>>)]

\* The tuple of the arguments' results: argument k parses the one token at
\* its index, or no token when the list is shorter.
CompoundArgument_results(arguments, argv) ==
    [k \in 1..Len(arguments) |->
        PositionalArgumentInterface_parse_args(
            arguments[k], IF k - 1 >= Len(argv) THEN <<>> ELSE <<argv[k]>>)]

\* CompoundArgument_parse rejecting already as many tokens as arguments.
CompoundArgument_parse_off_by_one(arguments, argv) ==
    IF Len(argv) >= Len(arguments)
    THEN [res |-> make_error(<<"Too many arguments. Provided", to_string(Len(argv)),
                               "arguments. Program expects ", to_string(Len(arguments))>>),
          calls |-> [k \in 1..Len(arguments) |-> <<>>]]
    ELSE LET results == CompoundArgument_results(arguments, argv)
             called == [k \in 1..Len(arguments) |-> results[k].calls]
         IN  IF ~(\A k \in 1..Len(arguments) : results[k].res.ok)
             THEN [res |-> make_error(<<"Argument failed to parse">>), calls |-> called]
             ELSE [res |-> Expected([k \in 1..Len(arguments) |-> results[k].res.value[1]]),
                   calls |-> called]

CompoundArgument_parse(arguments, argv) ==
    IF Len(argv) > Len(arguments)
    THEN [res |-> make_error(<<"Too many arguments. Provided", to_string(Len(argv)),
                               "arguments. Program expects ", to_string(Len(arguments))>>),
          calls |-> [k \in 1..Len(arguments) |-> <<>>]]
    ELSE LET results == CompoundArgument_results(arguments, argv)
             called == [k \in 1..Len(arguments) |-> results[k].calls]
         IN  IF ~(\A k \in 1..Len(arguments) : results[k].res.ok)
             THEN [res |-> make_error(<<"Argument failed to parse">>), calls |-> called]
             ELSE [res |-> Expected([k \in 1..Len(arguments) |-> results[k].res.value[1]]),
                   calls |-> called]

(***************************************************************************)
(* Parsers as values.  A parser is the record of its shape and of its      *)
(* members: the declarations of a single option or argument and of a       *)
(* compound, the two bases of a CompoundParser, the commands of a          *)
(* CommandSelector, the two fields of a CommandWithSharedOptions and of a  *)
(* CommandWithImplicitCommand.                                             *)
(***************************************************************************)
OptionInterface(decl) == [shape |-> "OptionInterface", members |-> <<decl>>]
PositionalArgumentInterface(decl) == [shape |-> "PositionalArgumentInterface", members |-> <<decl>>]
CompoundOption(options) == [shape |-> "CompoundOption", members |-> options]
CompoundArgument(arguments) == [shape |-> "CompoundArgument", members |-> arguments]
CompoundParser(arguments, options) == [shape |-> "CompoundParser", members |-> <<arguments, options>>]
CommandSelector(commands) == [shape |-> "CommandSelector", members |-> commands]
CommandWithSharedOptions(shared_options_, commands_) ==
    [shape |-> "CommandWithSharedOptions", members |-> <<shared_options_, commands_>>]
CommandWithImplicitCommand(commands_, implicit_command_) ==
    [shape |-> "CommandWithImplicitCommand", members |-> <<commands_, implicit_command_>>]

\* One call of parse on a member parser, as it is logged: the tokens it was
\* given and what it returned.
ParseCall(function, argv, result) == [fn |-> function, text |-> argv, val |-> <<result>>]

(***************************************************************************)
(* CompoundParser<Arguments, Options>::parse                               *)
(***************************************************************************)
\* find_first_option never finding an option: every token is positional.
find_first_option_none(argv, pos) == Len(argv)

\* std::find_if(argv, argv + argc, arg[0] == '-'), from position pos on: the
\* position of the first such token, or argc.
RECURSIVE find_first_option(_, _)
find_first_option(argv, pos) ==
    IF pos >= Len(argv) THEN Len(argv)
    ELSE IF Len(argv[pos + 1]) > 0 /\ CharAt(argv[pos + 1], 0) = "-" THEN pos
    ELSE find_first_option(argv, pos + 1)

\* The return statements of CompoundParser::parse.
CompoundParser_parse_return(first_tokens, args_, option_tokens, opts) ==
    IF ~args_.ok
    THEN [res |-> Error(args_.error),
          calls |-> <<<<ParseCall("parse", first_tokens, args_)>>, <<>>>>]
    ELSE IF ~opts.ok
         THEN [res |-> Error(opts.error),
               calls |-> <<<<ParseCall("parse", first_tokens, args_)>>,
                           <<ParseCall("parse", option_tokens, opts)>>>>]
         ELSE [res |-> Expected(args_.value \o opts.value),
               calls |-> <<<<ParseCall("parse", first_tokens, args_)>>,
                           <<ParseCall("parse", option_tokens, opts)>>>>]

\* Arguments::parse(positional_arg_count, argv), then
\* Options::parse(argc - positional_arg_count, first_option).
CompoundParser_parse_from(arguments, options, argv, positional_arg_count) ==
    CompoundParser_parse_return(
        SubSeq(argv, 1, positional_arg_count),
        CompoundArgument_parse(arguments.members, SubSeq(argv, 1, positional_arg_count)).res,
        SubSeq(argv, positional_arg_count + 1, Len(argv)),
        CompoundOption_parse(options.members,
                             SubSeq(argv, positional_arg_count + 1, Len(argv))))

CompoundParser_parse(arguments, options, argv) ==
    CompoundParser_parse_from(arguments, options, argv, find_first_option(argv, 0))

\* parser.parse(argc, argv) of a parser that is a member of another one.
Parser_parse(p, argv) ==
    CASE p.shape = "OptionInterface" -> OptionInterface_parse_args(p.members[1], argv).res
      [] p.shape = "PositionalArgumentInterface" ->
             PositionalArgumentInterface_parse_args(p.members[1], argv).res
      [] p.shape = "CompoundOption" -> CompoundOption_parse(p.members, argv)
      [] p.shape = "CompoundArgument" -> CompoundArgument_parse(p.members, argv).res
      [] p.shape = "CompoundParser" ->
             CompoundParser_parse(p.members[1], p.members[2], argv).res

(***************************************************************************)
(* Command<P>, the Help command of the tests, CommandSelector<Commands...> *)
(***************************************************************************)
NoParser == [shape |-> "none", members |-> <<>>]

Command(name_, parser_) == [kind |-> "Command", name |-> name_, parser |-> parser_]
Help == [kind |-> "Help", name |-> "help", parser |-> NoParser]

Command_match(command, text) ==
    IF command.kind = "Help"
    THEN text = "--help" \/ text = "-h" \/ text = "-?" \/ text = "help"
    ELSE text = command.name

\* What Command<P>::parse_command and Help::parse_command return, with the log
\* of the call.
Command_parse_command_return(command, argv, result) ==
    [res |-> result,
     calls |-> IF command.kind = "Help"
               THEN <<ParseCall("parse_command", argv, result)>>
               ELSE <<ParseCall("parse_command", argv, result),
                      ParseCall("parse", Tail(argv), result)>>]

\* Command<P>::parse_command handing the whole list, the command word
\* included, to the parser.
Command_parse_command_whole_list(command, argv) ==
    IF command.kind = "Help"
    THEN [res |-> Expected(<<>>), calls |-> <<ParseCall("parse_command", argv, Expected(<<>>))>>]
    ELSE LET result == Parser_parse(command.parser, argv)
         IN  [res |-> result,
              calls |-> <<ParseCall("parse_command", argv, result),
                          ParseCall("parse", argv, result)>>]

\* Command<P>::parse_command: parser.parse(argc - 1, argv + 1); Help returns
\* ShowHelp, a struct without fields, whatever the tokens.
Command_parse_command(command, argv) ==
    Command_parse_command_return(
        command, argv,
        IF command.kind = "Help" THEN Expected(<<>>) ELSE Parser_parse(command.parser, Tail(argv)))

\* A value of std::variant<...>: the index of the alternative and its value.
Variant(index, value) == <<index, value>>

\* The return statements of detail::parse_impl after next.parse_command.
detail_parse_impl_return(commands, k, result) ==
    [res |-> IF ~result.res.ok
             THEN Error(result.res.error)
             ELSE Expected(Variant(k - 1, result.res.value)),
     calls |-> [[j \in 1..Len(commands) |-> <<>>] EXCEPT ![k] = result.calls]]

\* detail::parse_impl trying the commands declared after Next before Next.
RECURSIVE detail_parse_impl_rest_first(_, _, _)
detail_parse_impl_rest_first(commands, k, argv) ==
    LET next == commands[k]
        none == [j \in 1..Len(commands) |-> <<>>]
        rest == IF Len(commands) - k > 0
                THEN detail_parse_impl_rest_first(commands, k + 1, argv)
                ELSE [res |-> make_error(<<"Unrecognized command \"", argv[1], "\"">>),
                      calls |-> none]
    IN  IF rest.calls # none
        THEN rest
        ELSE IF Command_match(next, argv[1])
             THEN LET result == Command_parse_command(next, argv)
                  IN  [res |-> IF ~result.res.ok
                               THEN Error(result.res.error)
                               ELSE Expected(Variant(k - 1, result.res.value)),
                       calls |-> [none EXCEPT ![k] = result.calls]]
             ELSE rest

\* detail::parse_impl going on to the commands declared after Next when the
\* parser of Next fails.
RECURSIVE detail_parse_impl_try_next_on_failure(_, _, _)
detail_parse_impl_try_next_on_failure(commands, k, argv) ==
    LET next == commands[k]
        none == [j \in 1..Len(commands) |-> <<>>]
        rest == IF Len(commands) - k > 0
                THEN detail_parse_impl_try_next_on_failure(commands, k + 1, argv)
                ELSE [res |-> make_error(<<"Unrecognized command \"", argv[1], "\"">>),
                      calls |-> none]
    IN  IF Command_match(next, argv[1])
        THEN LET result == Command_parse_command(next, argv)
             IN  IF ~result.res.ok
                 THEN IF Len(commands) - k > 0
                      THEN [res |-> rest.res, calls |-> [rest.calls EXCEPT ![k] = result.calls]]
                      ELSE [res |-> Error(result.res.error),
                            calls |-> [none EXCEPT ![k] = result.calls]]
                 ELSE [res |-> Expected(Variant(k - 1, result.res.value)),
                       calls |-> [none EXCEPT ![k] = result.calls]]
        ELSE rest

\* detail::parse_impl<Next, Rest...>, Next being the k-th command.
RECURSIVE detail_parse_impl(_, _, _)
detail_parse_impl(commands, k, argv) ==
    IF Command_match(commands[k], argv[1])
    THEN detail_parse_impl_return(commands, k, Command_parse_command(commands[k], argv))
    ELSE IF Len(commands) - k > 0
         THEN detail_parse_impl(commands, k + 1, argv)
         ELSE [res |-> make_error(<<"Unrecognized command \"", argv[1], "\"">>),
               calls |-> [j \in 1..Len(commands) |-> <<>>]]

\* CommandSelector::parse without the test of argc.
CommandSelector_parse_unchecked(commands, argv) ==
    IF Len(argv) <= 0
    THEN [res |-> make_error(<<"Unrecognized command \"", "", "\"">>),
          calls |-> [j \in 1..Len(commands) |-> <<>>]]
    ELSE detail_parse_impl(commands, 1, argv)

CommandSelector_parse(commands, argv) ==
    IF Len(argv) <= 0
    THEN [res |-> make_error(<<"Expected command.">>),
          calls |-> [j \in 1..Len(commands) |-> <<>>]]
    ELSE detail_parse_impl(commands, 1, argv)

CommandSelector_match(commands, text) ==
    \E k \in 1..Len(commands) : Command_match(commands[k], text)

(***************************************************************************)
(* CommandWithSharedOptions<SharedOptions, Commands>::parse                *)
(***************************************************************************)
\* find_command finding the last token that is a command word, not the first.
RECURSIVE find_command_last(_, _, _)
find_command_last(commands, argv, pos) ==
    IF pos >= Len(argv) THEN Len(argv)
    ELSE LET later == find_command_last(commands, argv, pos + 1)
         IN  IF later < Len(argv) THEN later
             ELSE IF CommandSelector_match(commands, argv[pos + 1]) THEN pos
             ELSE Len(argv)

\* std::find_if(argv, argv + argc, commands.match(arg)), from position pos on.
RECURSIVE find_command(_, _, _)
find_command(commands, argv, pos) ==
    IF pos >= Len(argv) THEN Len(argv)
    ELSE IF CommandSelector_match(commands, argv[pos + 1]) THEN pos
    ELSE find_command(commands, argv, pos + 1)

\* The return statements of CommandWithSharedOptions::parse.
CommandWithSharedOptions_parse_return(shared_tokens, shared_arguments, command_tokens, command) ==
    IF ~shared_arguments.ok
    THEN [res |-> Error(shared_arguments.error),
          calls |-> <<<<ParseCall("parse", shared_tokens, shared_arguments)>>, <<>>>>]
    ELSE IF ~command.ok
         THEN [res |-> Error(command.error),
               calls |-> <<<<ParseCall("parse", shared_tokens, shared_arguments)>>,
                           <<ParseCall("parse", command_tokens, command)>>>>]
         ELSE [res |-> Expected(<<shared_arguments.value, command.value>>),
               calls |-> <<<<ParseCall("parse", shared_tokens, shared_arguments)>>,
                           <<ParseCall("parse", command_tokens, command)>>>>]

\* shared_options.parse(arguments_until_command, argv), then
\* commands.parse(argc - arguments_until_command, it).
CommandWithSharedOptions_parse_from(shared_options, commands, argv, arguments_until_command) ==
    CommandWithSharedOptions_parse_return(
        SubSeq(argv, 1, arguments_until_command),
        Parser_parse(shared_options, SubSeq(argv, 1, arguments_until_command)),
        SubSeq(argv, arguments_until_command + 1, Len(argv)),
        CommandSelector_parse(commands.members,
                              SubSeq(argv, arguments_until_command + 1, Len(argv))).res)

CommandWithSharedOptions_parse_found(shared_options, commands, argv, it) ==
    IF it = Len(argv)
    THEN [res |-> make_error(<<"Expected command.">>), calls |-> <<<<>>, <<>>>>]
    ELSE CommandWithSharedOptions_parse_from(shared_options, commands, argv, it)

\* CommandWithSharedOptions::parse calling the shared parser before it tests
\* whether a command was found.
CommandWithSharedOptions_parse_shared_first(shared_options, commands, argv) ==
    LET it == find_command(commands.members, argv, 0)
        arguments_until_command == it
        shared_tokens == SubSeq(argv, 1, arguments_until_command)
        shared_arguments == Parser_parse(shared_options, shared_tokens)
        shared_call == <<ParseCall("parse", shared_tokens, shared_arguments)>>
    IN  IF ~shared_arguments.ok
        THEN [res |-> Error(shared_arguments.error), calls |-> <<shared_call, <<>>>>]
        ELSE IF it = Len(argv)
        THEN [res |-> make_error(<<"Expected command.">>), calls |-> <<shared_call, <<>>>>]
        ELSE
          LET command_tokens == SubSeq(argv, arguments_until_command + 1, Len(argv))
              command == CommandSelector_parse(commands.members, command_tokens).res
              command_call == <<ParseCall("parse", command_tokens, command)>>
          IN  IF ~command.ok
              THEN [res |-> Error(command.error), calls |-> <<shared_call, command_call>>]
              ELSE [res |-> Expected(<<shared_arguments.value, command.value>>),
                    calls |-> <<shared_call, command_call>>]

CommandWithSharedOptions_parse(shared_options, commands, argv) ==
    CommandWithSharedOptions_parse_found(shared_options, commands, argv,
                                         find_command(commands.members, argv, 0))

(***************************************************************************)
(* CommandWithImplicitCommand<Commands, ImplicitCommand>::parse            *)
(***************************************************************************)
\* argv_0 is the text that the read of argv[0] yields.  The result type is
\* either<Commands::parse_result_type, ImplicitCommand::parse_result_type>:
\* the alternatives of the commands followed by that of the implicit command.
\* The return statements of the branch of the commands and of that of the
\* implicit command.
CommandWithImplicitCommand_parse_command(argv, parsed_command) ==
    [res |-> IF ~parsed_command.ok
             THEN Error(parsed_command.error)
             ELSE Expected(Variant(parsed_command.value[1], parsed_command.value[2])),
     calls |-> <<<<ParseCall("parse", argv, parsed_command)>>, <<>>>>]

CommandWithImplicitCommand_parse_implicit(commands, argv, parsed_implicit_command) ==
    [res |-> IF ~parsed_implicit_command.ok
             THEN Error(parsed_implicit_command.error)
             ELSE Expected(Variant(Len(commands.members), parsed_implicit_command.value)),
     calls |-> <<<<>>, <<ParseCall("parse", argv, parsed_implicit_command)>>>>]

CommandWithImplicitCommand_parse(commands, implicit_command, argv, argv_0) ==
    IF CommandSelector_match(commands.members, argv_0)
    THEN CommandWithImplicitCommand_parse_command(
             argv, CommandSelector_parse(commands.members, argv).res)
    ELSE CommandWithImplicitCommand_parse_implicit(
             commands, argv, Parser_parse(implicit_command, argv))

(***************************************************************************)
(* The parse functions of clp.inl, which return std::optional: <<>> is     *)
(* std::nullopt and <<v>> the optional that holds v.  A value is written   *)
(* as the parse functions of dodo.inl above write it.                      *)
(***************************************************************************)
\* if (parse_result && !this->validate(*parse_result)) return std::nullopt;
\* return parse_result;  validate returns the std::optional of the message of
\* the check that failed, and operator ! of it is true when it holds none.
clp_inl_validated(decl, parse_result) ==
    IF HasValidationCheck(decl) /\ parse_result # <<>>
           /\ validate(decl, parse_result[1]).message = <<>>
    THEN <<>>
    ELSE IF parse_result = <<>> THEN <<>> ELSE <<parse_result>>

\* OptionInterface<Base>::parse(std::string_view)
clp_inl_OptionInterface_parse(decl, matched_arg) ==
    IF HasImplicitValue(decl) /\ matched_arg = ""
    THEN <<<<make_parse_result(decl.value_type, decl.implicit_value[1])>>>>
    ELSE clp_inl_validated(decl, parse_impl(decl, matched_arg))

\* The branch argc == 1 of OptionInterface<Base>::parse(argc, argv).
clp_inl_OptionInterface_parse_matched(decl, matched) ==
    IF matched # <<>>
    THEN IF HasImplicitValue(decl) /\ matched[1] = ""
         THEN <<<<make_parse_result(decl.value_type, decl.implicit_value[1])>>>>
         ELSE clp_inl_validated(decl, parse_impl(decl, matched[1]))
    ELSE <<>>

\* OptionInterface<Base>::parse(argc, argv)
clp_inl_OptionInterface_parse_args(decl, argv) ==
    IF Len(argv) = 0
    THEN IF HasDefaultValue(decl)
         THEN <<<<make_parse_result(decl.value_type, decl.default_value[1])>>>>
         ELSE <<>>
    ELSE IF Len(argv) = 1
         THEN clp_inl_OptionInterface_parse_matched(decl, match(decl, argv[1]))
         ELSE <<>>

\* PositionalArgumentInterface<Base>::parse(std::string_view)
clp_inl_PositionalArgumentInterface_parse(decl, matched_arg) ==
    clp_inl_validated(decl, parse_impl(decl, matched_arg))

\* PositionalArgumentInterface<Base>::parse(argc, argv)
clp_inl_PositionalArgumentInterface_parse_args(decl, argv) ==
    IF Len(argv) = 0
    THEN IF HasDefaultValue(decl)
         THEN <<<<make_parse_result(decl.value_type, decl.default_value[1])>>>>
         ELSE <<>>
    ELSE IF Len(argv) = 1
         THEN clp_inl_PositionalArgumentInterface_parse(decl, argv[1])
         ELSE <<>>

\* try_parse_argument: the option's result is set to what parse returned,
\* std::nullopt included.
clp_inl_try_parse_argument_matched(decl, matched, result) ==
    IF matched # <<>>
    THEN [parsed |-> TRUE, result |-> <<clp_inl_OptionInterface_parse(decl, matched[1])>>]
    ELSE [parsed |-> FALSE, result |-> result]

clp_inl_try_parse_argument(decl, arg, result) ==
    IF result = <<>>
    THEN clp_inl_try_parse_argument_matched(decl, match(decl, arg), result)
    ELSE [parsed |-> FALSE, result |-> result]

\* The fold (try_parse_argument(...) || ...) from the k-th option on.
RECURSIVE clp_inl_try_parse_argument_fold(_, _, _, _)
clp_inl_try_parse_argument_or(options, k, arg, results, r) ==
    IF r.parsed
    THEN [parsed |-> TRUE, results |-> [results EXCEPT ![k] = r.result]]
    ELSE clp_inl_try_parse_argument_fold(options, k + 1, arg, results)

clp_inl_try_parse_argument_fold(options, k, arg, results) ==
    IF k > Len(options)
    THEN [parsed |-> FALSE, results |-> results]
    ELSE clp_inl_try_parse_argument_or(options, k, arg, results,
                                       clp_inl_try_parse_argument(options[k], arg, results[k]))

clp_inl_complete_with_default_value(decl, result) ==
    IF HasDefaultValue(decl) /\ result = <<>>
    THEN <<<<<<make_parse_result(decl.value_type, decl.default_value[1])>>>>>>
    ELSE result

\* The two checks and the return statement of CompoundOption::parse.
clp_inl_CompoundOption_parse_return(results) ==
    IF ~(\A k \in 1..Len(results) : results[k] # <<>>)
    THEN <<>>
    ELSE IF ~(\A k \in 1..Len(results) : results[k][1] # <<>>)
         THEN <<>>
         ELSE <<[k \in 1..Len(results) |-> results[k][1][1][1]]>>

\* CompoundOption<Options...>::parse, from loop index pos (0-based) on.
RECURSIVE clp_inl_CompoundOption_parse_from(_, _, _, _)
clp_inl_CompoundOption_parse_next(options, argv, pos, r) ==
    IF ~r.parsed
    THEN <<>>
    ELSE clp_inl_CompoundOption_parse_from(options, argv, pos + 1, r.results)

clp_inl_CompoundOption_parse_from(options, argv, pos, results) ==
    IF pos < Len(argv)
    THEN clp_inl_CompoundOption_parse_next(
             options, argv, pos,
             clp_inl_try_parse_argument_fold(options, 1, argv[pos + 1], results))
    ELSE clp_inl_CompoundOption_parse_return(
             [k \in 1..Len(options) |->
                 clp_inl_complete_with_default_value(options[k], results[k])])

clp_inl_CompoundOption_parse(options, argv) ==
    clp_inl_CompoundOption_parse_from(options, argv, 0, [k \in 1..Len(options) |-> <<>>])

\* CompoundArgument<Arguments...>::parse
clp_inl_CompoundArgument_parse_return(results) ==
    IF ~(\A k \in 1..Len(results) : results[k] # <<>>)
    THEN <<>>
    ELSE <<[k \in 1..Len(results) |-> results[k][1][1]]>>

clp_inl_CompoundArgument_parse(arguments, argv) ==
    IF Len(argv) > Len(arguments)
    THEN <<>>
    ELSE clp_inl_CompoundArgument_parse_return(
             [k \in 1..Len(arguments) |->
                 clp_inl_PositionalArgumentInterface_parse_args(
                     arguments[k], IF k - 1 >= Len(argv) THEN <<>> ELSE <<argv[k]>>)])

\* CompoundParser<Arguments, Options>::parse
clp_inl_CompoundParser_parse_return(args_, opts) ==
    IF args_ = <<>> \/ opts = <<>> THEN <<>> ELSE <<args_[1] \o opts[1]>>

clp_inl_CompoundParser_parse_from(arguments, options, argv, positional_arg_count) ==
    clp_inl_CompoundParser_parse_return(
        clp_inl_CompoundArgument_parse(arguments.members, SubSeq(argv, 1, positional_arg_count)),
        clp_inl_CompoundOption_parse(options.members,
                                     SubSeq(argv, positional_arg_count + 1, Len(argv))))

clp_inl_CompoundParser_parse(arguments, options, argv) ==
    clp_inl_CompoundParser_parse_from(arguments, options, argv, find_first_option(argv, 0))

\* parser.parse(argc, argv) of a parser that is a member of another one.
clp_inl_Parser_parse(p, argv) ==
    CASE p.shape = "OptionInterface" -> clp_inl_OptionInterface_parse_args(p.members[1], argv)
      [] p.shape = "PositionalArgumentInterface" ->
             clp_inl_PositionalArgumentInterface_parse_args(p.members[1], argv)
      [] p.shape = "CompoundOption" -> clp_inl_CompoundOption_parse(p.members, argv)
      [] p.shape = "CompoundArgument" -> clp_inl_CompoundArgument_parse(p.members, argv)
      [] p.shape = "CompoundParser" ->
             clp_inl_CompoundParser_parse(p.members[1], p.members[2], argv)

\* Command<P>::parse_command: parser.parse(argc - 1, argv + 1); Help returns
\* ShowHelp.
clp_inl_Command_parse_command(command, argv) ==
    IF command.kind = "Help" THEN <<<<>>>> ELSE clp_inl_Parser_parse(command.parser, Tail(argv))

\* The return statements of detail::parse_impl after next.parse_command.
clp_inl_detail_parse_impl_return(k, result) ==
    IF result = <<>> THEN <<>> ELSE <<Variant(k - 1, result[1])>>

\* detail::parse_impl<Next, Rest...>, Next being the k-th command.
RECURSIVE clp_inl_detail_parse_impl(_, _, _)
clp_inl_detail_parse_impl(commands, k, argv) ==
    IF Command_match(commands[k], argv[1])
    THEN clp_inl_detail_parse_impl_return(k, clp_inl_Command_parse_command(commands[k], argv))
    ELSE IF Len(commands) - k > 0
         THEN clp_inl_detail_parse_impl(commands, k + 1, argv)
         ELSE <<>>

\* CommandSelector<Commands...>::parse
clp_inl_CommandSelector_parse(commands, argv) ==
    IF Len(argv) <= 0 THEN <<>> ELSE clp_inl_detail_parse_impl(commands, 1, argv)

\* CommandWithSharedOptions<SharedOptions, Commands>::parse
clp_inl_CommandWithSharedOptions_parse_return(shared_arguments, command) ==
    IF shared_arguments = <<>>
    THEN <<>>
    ELSE IF command = <<>> THEN <<>> ELSE <<<<shared_arguments[1], command[1]>>>>

clp_inl_CommandWithSharedOptions_parse_found(shared_options, commands, argv, it) ==
    IF it = Len(argv)
    THEN <<>>
    ELSE clp_inl_CommandWithSharedOptions_parse_return(
             clp_inl_Parser_parse(shared_options, SubSeq(argv, 1, it)),
             clp_inl_CommandSelector_parse(commands.members, SubSeq(argv, it + 1, Len(argv))))

clp_inl_CommandWithSharedOptions_parse(shared_options, commands, argv) ==
    clp_inl_CommandWithSharedOptions_parse_found(shared_options, commands, argv,
                                                 find_command(commands.members, argv, 0))

\* CommandWithImplicitCommand<Commands, ImplicitCommand>::parse; argv_0 is the
\* text that the read of argv[0] yields.
clp_inl_CommandWithImplicitCommand_parse_command(parsed_command) ==
    IF parsed_command = <<>>
    THEN <<>>
    ELSE <<Variant(parsed_command[1][1], parsed_command[1][2])>>

clp_inl_CommandWithImplicitCommand_parse_implicit(commands, parsed_implicit_command) ==
    IF parsed_implicit_command = <<>>
    THEN <<>>
    ELSE <<Variant(Len(commands.members), parsed_implicit_command[1])>>

clp_inl_CommandWithImplicitCommand_parse(commands, implicit_command, argv, argv_0) ==
    IF CommandSelector_match(commands.members, argv_0)
    THEN clp_inl_CommandWithImplicitCommand_parse_command(
             clp_inl_CommandSelector_parse(commands.members, argv))
    ELSE clp_inl_CommandWithImplicitCommand_parse_implicit(
             commands, clp_inl_Parser_parse(implicit_command, argv))

\* parse(argc, argv) of clp.inl on any parser.
clp_inl_parse(p, argv, argv_0) ==
    CASE p.shape = "CommandSelector" -> clp_inl_CommandSelector_parse(p.members, argv)
      [] p.shape = "CommandWithSharedOptions" ->
             clp_inl_CommandWithSharedOptions_parse(p.members[1], p.members[2], argv)
      [] p.shape = "CommandWithImplicitCommand" ->
             clp_inl_CommandWithImplicitCommand_parse(p.members[1], p.members[2], argv, argv_0)
      [] OTHER -> clp_inl_Parser_parse(p, argv)

(***************************************************************************)
(* operator |: the overloads that combine options, positional arguments    *)
(* and commands.                                                           *)
(***************************************************************************)
\* The concepts and class templates that constrain the overloads.
SingleOption(x) == "shape" \in DOMAIN x /\ x.shape = "OptionInterface"
SingleArgument(x) == "shape" \in DOMAIN x /\ x.shape = "PositionalArgumentInterface"
CommandType(x) == "kind" \in DOMAIN x
IsCompoundOption(x) == "shape" \in DOMAIN x /\ x.shape = "CompoundOption"
IsCompoundArgument(x) == "shape" \in DOMAIN x /\ x.shape = "CompoundArgument"
IsCommandSelector(x) == "shape" \in DOMAIN x /\ x.shape = "CommandSelector"

\* CompoundOption<A, B>(a, b)
or_SingleOption_SingleOption(a, b) == CompoundOption(<<a.members[1], b.members[1]>>)
\* CompoundOption<A..., B>(a.access_option<A>()..., b)
or_CompoundOption_SingleOption(a, b) ==
    CompoundOption([k \in 1..(Len(a.members) + 1) |->
                        IF k <= Len(a.members) THEN a.members[k] ELSE b.members[1]])
\* A | CompoundOption<B...> with a put after the options of b.
or_SingleOption_CompoundOption_appending(a, b) ==
    CompoundOption([k \in 1..(Len(b.members) + 1) |->
                        IF k <= Len(b.members) THEN b.members[k] ELSE a.members[1]])

\* CompoundOption<A, B...>(a, b.access_option<B>()...)
or_SingleOption_CompoundOption(a, b) ==
    CompoundOption([k \in 1..(1 + Len(b.members)) |->
                        IF k = 1 THEN a.members[1] ELSE b.members[k - 1]])
\* CompoundOption<A..., B...>(a.access_option<A>()..., b.access_option<B>()...)
or_CompoundOption_CompoundOption(a, b) ==
    CompoundOption([k \in 1..(Len(a.members) + Len(b.members)) |->
                        IF k <= Len(a.members) THEN a.members[k]
                        ELSE b.members[k - Len(a.members)]])

\* The same four overloads for positional arguments.
or_SingleArgument_SingleArgument(a, b) == CompoundArgument(<<a.members[1], b.members[1]>>)
or_CompoundArgument_SingleArgument(a, b) ==
    CompoundArgument([k \in 1..(Len(a.members) + 1) |->
                          IF k <= Len(a.members) THEN a.members[k] ELSE b.members[1]])
or_SingleArgument_CompoundArgument(a, b) ==
    CompoundArgument([k \in 1..(1 + Len(b.members)) |->
                          IF k = 1 THEN a.members[1] ELSE b.members[k - 1]])
or_CompoundArgument_CompoundArgument(a, b) ==
    CompoundArgument([k \in 1..(Len(a.members) + Len(b.members)) |->
                          IF k <= Len(a.members) THEN a.members[k]
                          ELSE b.members[k - Len(a.members)]])

\* And for commands.
or_CommandType_CommandType(a, b) == CommandSelector(<<a, b>>)
or_CommandSelector_CommandType(a, b) ==
    CommandSelector([k \in 1..(Len(a.members) + 1) |->
                         IF k <= Len(a.members) THEN a.members[k] ELSE b])
or_CommandType_CommandSelector(a, b) ==
    CommandSelector([k \in 1..(1 + Len(b.members)) |->
                         IF k = 1 THEN a ELSE b.members[k - 1]])
or_CommandSelector_CommandSelector(a, b) ==
    CommandSelector([k \in 1..(Len(a.members) + Len(b.members)) |->
                         IF k <= Len(a.members) THEN a.members[k]
                         ELSE b.members[k - Len(a.members)]])

\* SingleArgument | SingleOption with the options put in the place of the
\* arguments.
or_SingleArgument_SingleOption_options_first(a, b) ==
    CompoundParser(CompoundOption(<<b.members[1]>>), CompoundArgument(<<a.members[1]>>))

\* The overloads that yield a CompoundParser from positional arguments on the
\* left and options on the right.
or_SingleArgument_SingleOption(a, b) ==
    CompoundParser(CompoundArgument(<<a.members[1]>>), CompoundOption(<<b.members[1]>>))
or_CompoundArgument_SingleOption(a, b) == CompoundParser(a, CompoundOption(<<b.members[1]>>))
or_SingleArgument_CompoundOption(a, b) == CompoundParser(CompoundArgument(<<a.members[1]>>), b)
or_CompoundArgument_CompoundOption(a, b) == CompoundParser(a, b)

\* The expression a | b for which no declared overload is viable: the program
\* that contains it does not compile.
NoViableOverload == [shape |-> "no viable operator |", members |-> <<>>]

\* a | b: the overload that the categories of the operands select.
operator_or(a, b) ==
    CASE SingleOption(a) /\ SingleOption(b) -> or_SingleOption_SingleOption(a, b)
      [] IsCompoundOption(a) /\ SingleOption(b) -> or_CompoundOption_SingleOption(a, b)
      [] SingleOption(a) /\ IsCompoundOption(b) -> or_SingleOption_CompoundOption(a, b)
      [] IsCompoundOption(a) /\ IsCompoundOption(b) -> or_CompoundOption_CompoundOption(a, b)
      [] SingleArgument(a) /\ SingleArgument(b) -> or_SingleArgument_SingleArgument(a, b)
      [] IsCompoundArgument(a) /\ SingleArgument(b) -> or_CompoundArgument_SingleArgument(a, b)
      [] SingleArgument(a) /\ IsCompoundArgument(b) -> or_SingleArgument_CompoundArgument(a, b)
      [] IsCompoundArgument(a) /\ IsCompoundArgument(b) ->
             or_CompoundArgument_CompoundArgument(a, b)
      [] CommandType(a) /\ CommandType(b) -> or_CommandType_CommandType(a, b)
      [] IsCommandSelector(a) /\ CommandType(b) -> or_CommandSelector_CommandType(a, b)
      [] CommandType(a) /\ IsCommandSelector(b) -> or_CommandType_CommandSelector(a, b)
      [] IsCommandSelector(a) /\ IsCommandSelector(b) ->
             or_CommandSelector_CommandSelector(a, b)
      [] SingleArgument(a) /\ SingleOption(b) -> or_SingleArgument_SingleOption(a, b)
      [] IsCompoundArgument(a) /\ SingleOption(b) -> or_CompoundArgument_SingleOption(a, b)
      [] SingleArgument(a) /\ IsCompoundOption(b) -> or_SingleArgument_CompoundOption(a, b)
      [] IsCompoundArgument(a) /\ IsCompoundOption(b) ->
             or_CompoundArgument_CompoundOption(a, b)
      [] OTHER -> NoViableOverload

(***************************************************************************)
(* The decorators as member functions of OptionInterface<Base> and of      *)
(* PositionalArgumentInterface<Base>.  Base is the sequence of the class   *)
(* templates that make up the type, the innermost one first.               *)
(***************************************************************************)
Carries(Base, layer) == {k \in DOMAIN Base : Base[k] = layer}

\* The concepts HasDefaultValue<Base> and HasImplicitValue<Base>: the member
\* default_value (implicit_value) of some layer is found in the type.
Base_HasDefaultValue(Base) == Carries(Base, "WithDefaultValue") # {}
Base_HasImplicitValue(Base) == Carries(Base, "WithImplicitValue") # {}

\* The call for which no member function is viable: the declaration does not
\* compile.
NoViableMember == Error("no viable member function")

OptionInterface_default_to(Base) ==
    IF ~Base_HasDefaultValue(Base)
    THEN Expected(Append(Base, "WithDefaultValue"))
    ELSE NoViableMember

OptionInterface_implicitly(Base) ==
    IF ~Base_HasImplicitValue(Base)
    THEN Expected(Append(Base, "WithImplicitValue"))
    ELSE NoViableMember

OptionInterface_check(Base) == Expected(Append(Base, "WithCheck"))
OptionInterface_custom_parser(Base) == Expected(Append(Base, "WithCustomParser"))
OptionInterface_hint(Base) == Expected(Append(Base, "WithCustomHint"))
OptionInterface_subscript(Base) == Expected(Append(Base, "WithPattern"))

PositionalArgumentInterface_default_to(Base) ==
    IF ~Base_HasDefaultValue(Base)
    THEN Expected(Append(Base, "WithDefaultValue"))
    ELSE NoViableMember

PositionalArgumentInterface_check(Base) == Expected(Append(Base, "WithCheck"))
PositionalArgumentInterface_custom_parser(Base) == Expected(Append(Base, "WithCustomParser"))
PositionalArgumentInterface_hint(Base) == Expected(Append(Base, "WithCustomHint"))

\* object.decorator(...): the member function of the interface that the name
\* selects; PositionalArgumentInterface has no implicitly and no operator [].
member_call(Base, decorator) ==
    IF Base[1] = "Option"
    THEN CASE decorator = "default_to" -> OptionInterface_default_to(Base)
           [] decorator = "implicitly" -> OptionInterface_implicitly(Base)
           [] decorator = "check" -> OptionInterface_check(Base)
           [] decorator = "custom_parser" -> OptionInterface_custom_parser(Base)
           [] decorator = "hint" -> OptionInterface_hint(Base)
           [] decorator = "[]" -> OptionInterface_subscript(Base)
    ELSE CASE decorator = "default_to" -> PositionalArgumentInterface_default_to(Base)
           [] decorator = "check" -> PositionalArgumentInterface_check(Base)
           [] decorator = "custom_parser" -> PositionalArgumentInterface_custom_parser(Base)
           [] decorator = "hint" -> PositionalArgumentInterface_hint(Base)
           [] OTHER -> NoViableMember

\* The declaration expression macro(...).d1(...).d2(...)...: the decorators
\* are attached from the k-th on to the object of type Base.
RECURSIVE declaration(_, _, _)
declaration(Base, decorators, k) ==
    IF k > Len(decorators)
    THEN Expected(Base)
    ELSE LET attached == member_call(Base, decorators[k])
         IN  IF attached.ok THEN declaration(attached.value, decorators, k + 1) ELSE attached

(***************************************************************************)
(* The parsers and token lists the model is run on.                        *)
(***************************************************************************)
SeqsUpTo(S, n) == UNION {[1..m -> S] : m \in 0..n}

\* Sequences of 1..n distinct elements of S: the members of a compound are
\* distinct declarations.
DistinctSeqs(S, n) ==
    {s \in SeqsUpTo(S, n) : s # <<>> /\ \A a, b \in DOMAIN s : a # b => s[a] # s[b]}

positive == [predicate |-> "positive", error_message |-> "Width cannot be negative."]
even == [predicate |-> "even", error_message |-> "Width must be even."]

CheckLists == {<<>>, <<positive>>, <<positive, even>>, <<even, positive>>}

OptionPatternLists == {<<"-w">>, <<"-w", "--width">>, <<"-w", "-w=10">>}

\* The single options: every combination of the decorators.
IntOptions ==
    {[clp_Opt("int", "width") EXCEPT !.patterns = p, !.default_value = d,
                                     !.implicit_value = im, !.checks = c] :
        p \in OptionPatternLists,
        d \in {<<>>, <<IntV("int", -1)>>},
        im \in {<<>>, <<IntV("int", 7)>>},
        c \in CheckLists}

BoolOptions ==
    {[clp_Opt("bool", "some_flag") EXCEPT !.patterns = p, !.default_value = d,
                                          !.implicit_value = im, !.custom_parser = f] :
        p \in OptionPatternLists,
        d \in {<<>>, <<BoolV(FALSE)>>},
        im \in {<<>>, <<BoolV(TRUE)>>},
        f \in {"none", "on_off"}}

StringOptions ==
    {[clp_Opt("std::string", "starting_level") EXCEPT !.patterns = p, !.default_value = d,
                                                      !.implicit_value = im] :
        p \in OptionPatternLists,
        d \in {<<>>, <<StrV("std::string_view", "new-level")>>},
        im \in {<<>>, <<StrV("std::string_view", "main-world")>>}}

SingleOptions == IntOptions \cup BoolOptions \cup StringOptions

Suffixes == {"", "=", "=10", "=-3", "=7", "=15", "=foo", "=true", "=on"}

SingleTokens ==
    {spelling \o suffix : spelling \in {"-w", "--width"}, suffix \in Suffixes}
        \cup {"-width=10", "-f=10"}

\* The options whose match is examined on its own.
MatchPatterns == {"-w", "--width", "-w=10"}

MatchOptions ==
    {[clp_Opt("int", "width") EXCEPT !.patterns = p] :
        p \in SeqsUpTo(MatchPatterns, MaxPatterns) \ {<<>>}}

\* The members of the compounds of options.
CompoundOptionMembers ==
    { WithPattern(WithPattern(clp_Opt("int", "width"), "-w"), "--width"),
      WithDefaultValue(WithPattern(clp_Opt("int", "height"), "-h"), IntV("int", 1080)),
      WithPattern(clp_Flag("fullscreen"), "--fullscreen"),
      WithPattern(clp_Opt("int", "weight"), "-w") }

CompoundOptionTokens ==
    {"-w=10", "-w=foo", "--width=30", "-h=6", "--fullscreen", "--unrecognized=5"}

\* The members of the compounds of positional arguments.
CompoundArgumentMembers ==
    { clp_Arg("int", "width", "width"),
      clp_Arg("std::string_view", "username", "username"),
      WithDefaultValue(clp_Arg("int16_t", "port", "port"), IntV("int16_t", 80)) }

CompoundArgumentTokens == {"1920", "Foobar", "5", "05", "40000", "-3"}

(***************************************************************************)
(* Init: a parser has been declared and parse is about to run on args.     *)
(***************************************************************************)
InitMatch ==
    /\ parser \in [shape : {"WithPattern"}, members : {<<o>> : o \in MatchOptions}]
    /\ args \in {<<t>> : t \in SingleTokens}

InitOption ==
    /\ parser \in [shape : {"OptionInterface"}, members : {<<o>> : o \in SingleOptions}]
    /\ args \in SeqsUpTo(SingleTokens, MaxSingleArgs)

InitCompoundOption ==
    /\ parser \in [shape : {"CompoundOption"},
                   members : DistinctSeqs(CompoundOptionMembers, MaxMembers)]
    /\ args \in SeqsUpTo(CompoundOptionTokens, MaxArgs)

InitCompoundArgument ==
    /\ parser \in [shape : {"CompoundArgument"},
                   members : DistinctSeqs(CompoundArgumentMembers, MaxMembers)]
    /\ args \in SeqsUpTo(CompoundArgumentTokens, MaxArgs)

\* A positional argument parsed on its own.
InitArgument ==
    /\ parser \in {PositionalArgumentInterface(a) : a \in CompoundArgumentMembers}
    /\ args \in SeqsUpTo(CompoundArgumentTokens, MaxSingleArgs)

\* The parsers of positional arguments followed by options.
CompoundParserOptions ==
    { WithDefaultValue(WithPattern(clp_Opt("int", "height"), "-h"), IntV("int", 1080)),
      WithPattern(clp_Flag("fullscreen"), "--fullscreen") }

CompoundParserTokens == {"1920", "Foobar", "-3", "--fullscreen", "-h=6"}

InitCompoundParser ==
    /\ parser \in {CompoundParser(CompoundArgument(a), CompoundOption(o)) :
                       a \in DistinctSeqs(CompoundArgumentMembers, MaxMembers),
                       o \in DistinctSeqs(CompoundParserOptions, MaxMembers)}
    /\ args \in SeqsUpTo(CompoundParserTokens, MaxArgs)

\* The commands: two of them have the same name and different parsers.
width == WithPattern(WithPattern(clp_Opt("int", "width"), "-w"), "--width")
height == WithDefaultValue(WithPattern(clp_Opt("int", "height"), "-h"), IntV("int", 1080))
dry_run == WithPattern(clp_Flag("dry_run"), "--dry-run")
root_path == WithPattern(clp_Opt("std::string_view", "root_path"), "--root-path")
username == clp_Arg("std::string_view", "username", "username")

Commands ==
    { Command("open-window", CompoundOption(<<width, height>>)),
      Command("open-window", OptionInterface(dry_run)),
      Command("login", PositionalArgumentInterface(username)),
      Help }

CommandSelectors == {CommandSelector(c) : c \in DistinctSeqs(Commands, MaxCommands)}

CommandTokens == {"open-window", "login", "-h", "-h=6", "-w=10", "--dry-run"}

InitCommandSelector ==
    /\ parser \in CommandSelectors
    /\ args \in SeqsUpTo(CommandTokens, MaxArgs)

\* The shared options of the test, and one shared option without default value.
SharedOptions ==
    { CompoundOption(<<WithDefaultValue(root_path, StrV("std::string_view", ".")), dry_run>>),
      OptionInterface(root_path) }

InitCommandWithSharedOptions ==
    /\ parser \in {CommandWithSharedOptions(shared, commands) :
                       shared \in SharedOptions, commands \in CommandSelectors}
    /\ args \in SeqsUpTo(CommandTokens, MaxArgs)

ImplicitCommands ==
    { CompoundOption(<<width, height>>), PositionalArgumentInterface(username) }

InitCommandWithImplicitCommand ==
    /\ parser \in {CommandWithImplicitCommand(commands, implicit) :
                       commands \in CommandSelectors, implicit \in ImplicitCommands}
    /\ args \in SeqsUpTo(CommandTokens, MaxArgs)

\* What the read of argv[0] may yield when the token list is empty and the read
\* does not end the program: a text that is a command word or one that is not.
OutOfBoundsTexts == {"-h", "open-window", "login", "(not a command)"}

\* The read of argv[0] that ends the program.
EndsTheProgram == "(the program ends)"

\* The operands of operator |: three options, three positional arguments or
\* three commands, or two operands each of which is an option, a positional
\* argument, a compound of options or a compound of positional arguments.
OptionOperands == {OptionInterface(o) : o \in CompoundOptionMembers}
ArgumentOperands == {PositionalArgumentInterface(a) : a \in CompoundArgumentMembers}
PairOperands ==
    OptionOperands \cup ArgumentOperands
        \cup {CompoundOption(<<width, height>>),
              CompoundArgument(<<clp_Arg("int", "width", "width"), username>>)}

OperandLists ==
    {s \in DistinctSeqs(OptionOperands, 3) : Len(s) = 3}
        \cup {s \in DistinctSeqs(ArgumentOperands, 3) : Len(s) = 3}
        \cup {s \in DistinctSeqs(Commands, 3) : Len(s) = 3}
        \cup {s \in DistinctSeqs(PairOperands, 2) : Len(s) = 2}

OperandTokens == {"-w=10", "--fullscreen", "1920", "open-window"}

InitOperands ==
    /\ parser \in [shape : {"operator |"}, members : OperandLists]
    /\ args \in SeqsUpTo(OperandTokens, MaxArgs)

\* The declarations: the object a macro constructs and the decorators that
\* are attached to it, in order.
Decorators == {"default_to", "implicitly", "check", "custom_parser", "hint", "[]"}

InitDeclaration ==
    /\ parser \in [shape : {"declaration"},
                   members : {<<base>> \o d : base \in {"Option", "PositionalArgument"},
                                              d \in SeqsUpTo(Decorators, MaxDecorators)}]
    /\ args = <<>>

\* The parsers, which have a parse function.
ParsingShapes ==
    {"OptionInterface", "PositionalArgumentInterface", "CompoundOption", "CompoundArgument",
     "CompoundParser", "CommandSelector", "CommandWithSharedOptions", "CommandWithImplicitCommand"}

NotReturned == [ok |-> FALSE, value |-> <<>>, error |-> "(parse has not returned)"]

Init ==
    /\ \/ InitMatch \/ InitOption \/ InitCompoundOption \/ InitCompoundArgument
       \/ InitArgument
       \/ InitCompoundParser
       \/ InitCommandSelector \/ InitCommandWithSharedOptions
       \/ InitCommandWithImplicitCommand
       \/ InitOperands
       \/ InitDeclaration
    /\ pc = "start"
    /\ i = 0
    /\ option_parse_results = [k \in 1..Len(parser.members) |-> <<>>]
    /\ claimed_by = <<>>
    /\ ret = NotReturned
    /\ earlier = <<>>
    /\ calls = [k \in 1..Len(parser.members) |-> <<>>]

(***************************************************************************)
(* The parse calls.                                                        *)
(***************************************************************************)
\* WithPattern<Base>::match(text) on the one token.
Match ==
    /\ parser.shape = "WithPattern"
    /\ pc = "start"
    /\ LET matched == match(parser.members[1], args[1])
       IN  ret' = [ok |-> matched # <<>>, value |-> matched, error |-> ""]
    /\ pc' = "done"
    /\ UNCHANGED <<parser, earlier, args, i, option_parse_results, claimed_by, calls>>

\* OptionInterface<Base>::parse(args)
OptionParse ==
    /\ parser.shape = "OptionInterface"
    /\ pc = "start"
    /\ LET r == OptionInterface_parse_args(parser.members[1], args)
       IN  ret' = r.res /\ calls' = <<r.calls>>
    /\ pc' = "done"
    /\ UNCHANGED <<parser, earlier, args, i, option_parse_results, claimed_by>>

\* PositionalArgumentInterface<Base>::parse(args)
ArgumentParse ==
    /\ parser.shape = "PositionalArgumentInterface"
    /\ pc = "start"
    /\ LET r == PositionalArgumentInterface_parse_args(parser.members[1], args)
       IN  ret' = r.res /\ calls' = <<r.calls>>
    /\ pc' = "done"
    /\ UNCHANGED <<parser, earlier, args, i, option_parse_results, claimed_by>>

\* The loop iteration going on to the next token when no option parsed this one.
CompoundOptionLoop_ignore_unrecognized ==
    /\ parser.shape = "CompoundOption"
    /\ pc = "start"
    /\ i < Len(args)
    /\ LET r == try_parse_argument_fold(parser.members, 1, args[i + 1], option_parse_results)
       IN  /\ option_parse_results' = r.results
           /\ claimed_by' = Append(claimed_by, r.by)
           /\ calls' = IF r.by = 0 THEN calls ELSE [calls EXCEPT ![r.by] = @ \o r.calls]
           /\ i' = i + 1
           /\ UNCHANGED <<pc, ret>>
    /\ UNCHANGED <<parser, earlier, args>>

\* The loop iteration returning at once the error of the option that parsed
\* the token, when the option failed to parse it.
CompoundOptionLoop_return_on_failure ==
    /\ parser.shape = "CompoundOption"
    /\ pc = "start"
    /\ i < Len(args)
    /\ LET r == try_parse_argument_fold(parser.members, 1, args[i + 1], option_parse_results)
       IN  IF r.by = 0
           THEN /\ ret' = make_error(<<"Unrecognized argument \"", args[i + 1], "\"">>)
                /\ pc' = "done"
                /\ UNCHANGED <<i, option_parse_results, claimed_by, calls>>
           ELSE /\ option_parse_results' = r.results
                /\ claimed_by' = Append(claimed_by, r.by)
                /\ calls' = [calls EXCEPT ![r.by] = @ \o r.calls]
                /\ IF r.results[r.by][1].ok
                   THEN i' = i + 1 /\ UNCHANGED <<pc, ret>>
                   ELSE ret' = Error(r.results[r.by][1].error) /\ pc' = "done" /\ UNCHANGED i
    /\ UNCHANGED <<parser, earlier, args>>

\* One iteration of the for loop of CompoundOption<Options...>::parse.
CompoundOptionLoop ==
    /\ parser.shape = "CompoundOption"
    /\ pc = "start"
    /\ i < Len(args)
    /\ LET r == try_parse_argument_fold(parser.members, 1, args[i + 1], option_parse_results)
       IN  IF r.by = 0
           THEN /\ ret' = make_error(<<"Unrecognized argument \"", args[i + 1], "\"">>)
                /\ pc' = "done"
                /\ UNCHANGED <<i, option_parse_results, claimed_by, calls>>
           ELSE /\ option_parse_results' = r.results
                /\ claimed_by' = Append(claimed_by, r.by)
                /\ calls' = [calls EXCEPT ![r.by] = @ \o r.calls]
                /\ i' = i + 1
                /\ UNCHANGED <<pc, ret>>
    /\ UNCHANGED <<parser, earlier, args>>

\* The loop has ended: complete_with_default_value on every option, the checks
\* on the results and the return statement.
CompoundOptionReturn ==
    /\ parser.shape = "CompoundOption"
    /\ pc = "start"
    /\ i = Len(args)
    /\ option_parse_results' =
           complete_with_default_values(parser.members, option_parse_results)
    /\ ret' = CompoundOption_parse_return(option_parse_results')
    /\ pc' = "done"
    /\ UNCHANGED <<parser, earlier, args, i, claimed_by, calls>>

\* CompoundArgument<Arguments...>::parse(args)
CompoundArgumentParse ==
    /\ parser.shape = "CompoundArgument"
    /\ pc = "start"
    /\ LET r == CompoundArgument_parse(parser.members, args)
       IN  ret' = r.res /\ calls' = r.calls
    /\ pc' = "done"
    /\ UNCHANGED <<parser, earlier, args, i, option_parse_results, claimed_by>>

\* The parse call returns r.res, having made the calls r.calls.
Return(r) == ret' = r.res /\ calls' = r.calls

\* CompoundParser<Arguments, Options>::parse(argc, argv)
CompoundParserParse ==
    /\ parser.shape = "CompoundParser"
    /\ pc = "start"
    /\ Return(CompoundParser_parse(parser.members[1], parser.members[2], args))
    /\ pc' = "done"
    /\ UNCHANGED <<parser, earlier, args, i, option_parse_results, claimed_by>>

\* CommandSelector<Commands...>::parse(argc, argv)
CommandSelectorParse ==
    /\ parser.shape = "CommandSelector"
    /\ pc = "start"
    /\ Return(CommandSelector_parse(parser.members, args))
    /\ pc' = "done"
    /\ UNCHANGED <<parser, earlier, args, i, option_parse_results, claimed_by>>

\* CommandWithSharedOptions<SharedOptions, Commands>::parse(argc, argv)
CommandWithSharedOptionsParse ==
    /\ parser.shape = "CommandWithSharedOptions"
    /\ pc = "start"
    /\ Return(CommandWithSharedOptions_parse(parser.members[1], parser.members[2], args))
    /\ pc' = "done"
    /\ UNCHANGED <<parser, earlier, args, i, option_parse_results, claimed_by>>

\* CommandWithImplicitCommand<Commands, ImplicitCommand>::parse(argc, argv).
\* It reads argv[0] whatever argc is: with no token the read is out of bounds,
\* and it either ends the program or yields some text.
CommandWithImplicitCommandParse ==
    /\ parser.shape = "CommandWithImplicitCommand"
    /\ pc = "start"
    /\ \E argv_0 \in IF Len(args) > 0 THEN {args[1]} ELSE OutOfBoundsTexts \cup {EndsTheProgram} :
           IF argv_0 = EndsTheProgram
           THEN pc' = "crashed" /\ UNCHANGED <<ret, calls>>
           ELSE /\ Return(CommandWithImplicitCommand_parse(parser.members[1],
                                                           parser.members[2], args, argv_0))
                /\ pc' = "done"
    /\ UNCHANGED <<parser, earlier, args, i, option_parse_results, claimed_by>>

\* The operands are combined with operator |: two operands as a | b, three as
\* (a | b) | c and as a | (b | c).
Combine ==
    /\ parser.shape = "operator |"
    /\ pc = "start"
    /\ LET a == parser.members[1]
           b == parser.members[2]
       IN  ret' = IF Len(parser.members) = 2
                  THEN Expected(<<operator_or(a, b)>>)
                  ELSE LET c == parser.members[3]
                       IN  Expected(<<operator_or(operator_or(a, b), c),
                                      operator_or(a, operator_or(b, c))>>)
    /\ pc' = "done"
    /\ UNCHANGED <<parser, earlier, args, i, option_parse_results, claimed_by, calls>>

\* The declaration is compiled: the type of the declared parser, or no type
\* when a member call is not viable.
Declare ==
    /\ parser.shape = "declaration"
    /\ pc = "start"
    /\ ret' = declaration(<<parser.members[1]>>, Tail(parser.members), 1)
    /\ pc' = "done"
    /\ UNCHANGED <<parser, earlier, args, i, option_parse_results, claimed_by, calls>>

\* The caller calls parse again on the same parser object, with the token list
\* of the first call or with its tail.  The call that ended is remembered if it
\* was the first one; the locals of the new call are fresh.
ParseAgain ==
    /\ parser.shape \in ParsingShapes
    /\ pc = "done"
    /\ earlier' = IF earlier = <<>> THEN <<[args |-> args, ret |-> ret]>> ELSE earlier
    /\ args' \in {earlier'[1].args}
                     \cup (IF Len(earlier'[1].args) > 1 THEN {Tail(earlier'[1].args)} ELSE {})
    /\ pc' = "start"
    /\ i' = 0
    /\ option_parse_results' = [k \in 1..Len(parser.members) |-> <<>>]
    /\ claimed_by' = <<>>
    /\ ret' = NotReturned
    /\ calls' = [k \in 1..Len(parser.members) |-> <<>>]
    /\ UNCHANGED parser

\* The std::optional that a parse function of clp.inl returned, as ret.
Returned(r) == [ok |-> r # <<>>, value |-> IF r # <<>> THEN r[1] ELSE <<>>, error |-> ""]

\* The parse function of clp.inl, which returns std::optional, is called on the
\* parser.  CommandWithImplicitCommand::parse reads argv[0] whatever argc is.
ParseOptional ==
    /\ parser.shape \in ParsingShapes
    /\ pc = "start"
    /\ earlier = <<>>
    /\ \E argv_0 \in IF Len(args) > 0 \/ parser.shape # "CommandWithImplicitCommand"
                     THEN {IF Len(args) > 0 THEN args[1] ELSE ""}
                     ELSE OutOfBoundsTexts \cup {EndsTheProgram} :
           IF argv_0 = EndsTheProgram
           THEN pc' = "crashed" /\ UNCHANGED ret
           ELSE /\ ret' = Returned(clp_inl_parse(parser, args, argv_0))
                /\ pc' = "done (clp.inl)"
    /\ UNCHANGED <<parser, earlier, args, i, option_parse_results, claimed_by, calls>>

Next ==
    \/ Match
    \/ OptionParse
    \/ ArgumentParse
    \/ CompoundOptionLoop
    \/ CompoundOptionReturn
    \/ CompoundArgumentParse
    \/ CompoundParserParse
    \/ CommandSelectorParse
    \/ CommandWithSharedOptionsParse
    \/ CommandWithImplicitCommandParse
    \/ Combine
    \/ Declare
    \/ ParseAgain
    \/ ParseOptional

Spec == Init /\ [][Next]_vars

(***************************************************************************)
(* Vocabulary of the properties, stated without the operators above.       *)
(***************************************************************************)
\* Token T is pattern P alone, or P followed by '=' and some text.
Accepts(P, T) ==
    \/ T = P
    \/ Len(T) > Len(P) /\ SubSeq(T, 1, Len(P) + 1) = P \o "="

\* T is P followed by '=' and some text.
HasValueFor(P, T) == Len(T) > Len(P) /\ SubSeq(T, 1, Len(P) + 1) = P \o "="

\* The text of T after P and the '='.
TextAfter(P, T) == IF T = P THEN "" ELSE SubSeq(T, Len(P) + 2, Len(T))

AcceptingPatterns(decl, T) ==
    {k \in DOMAIN decl.patterns : Accepts(decl.patterns[k], T)}

Matches(decl, T) == AcceptingPatterns(decl, T) # {}

Earliest(S) == CHOOSE k \in S : \A j \in S : k <= j

\* The text the earliest-attached accepting pattern leaves of T.
Remainder(decl, T) ==
    TextAfter(decl.patterns[Earliest(AcceptingPatterns(decl, T))], T)

IsPatternOf(decl, T) == \E k \in DOMAIN decl.patterns : decl.patterns[k] = T

HasEquals(T) == \E p \in 1..Len(T) : SubSeq(T, p, p) = "="

\* An attached default or implicit value as a value of the option's type.
AsValueOf(decl, v) == [t |-> decl.value_type, n |-> v.n, s |-> v.s]

DefaultOf(decl) == AsValueOf(decl, decl.default_value[1])
ImplicitOf(decl) == AsValueOf(decl, decl.implicit_value[1])

PassesChecks(decl, value) ==
    \A c \in DOMAIN decl.checks : validation_predicate(decl.checks[c], value)

NoTokenMatches(decl) == \A n \in DOMAIN args : ~Matches(decl, args[n])

Unrecognized(T) == "Unrecognized argument \"" \o T \o "\""

members == parser.members
opt == parser.members[1]

MatchDone == parser.shape = "WithPattern" /\ pc = "done"
OptionDone == parser.shape = "OptionInterface" /\ pc = "done"
CompoundOptionDone == parser.shape = "CompoundOption" /\ pc = "done"
CompoundArgumentDone == parser.shape = "CompoundArgument" /\ pc = "done"

(***************************************************************************)
(* C1                                                                      *)
(***************************************************************************)
\* C1 as stated: for a single option with pattern P and no default value, the
\* list of the one token 'P=V' where V converts to X parses to X, and every
\* list in which no token matches fails.
C1_ConvertibleValueSucceeds ==
    (OptionDone /\ ~HasDefaultValue(opt)) =>
        /\ \A k \in DOMAIN opt.patterns :
              (Len(args) = 1 /\ HasValueFor(opt.patterns[k], args[1])) =>
                  LET X == parse_impl(opt, TextAfter(opt.patterns[k], args[1]))
                  IN  X # <<>> => ret = Expected(X)
        /\ NoTokenMatches(opt) => ~ret.ok

\* C1 amended: for a single option with no default value, the list of the one
\* token that the option matches with remainder V, where V is not empty or no
\* implicit value is attached, V converts to X and X passes every attached
\* check, parses to X; every list in which no token matches fails.
C1_ConvertibleValidValueSucceeds ==
    (OptionDone /\ ~HasDefaultValue(opt)) =>
        /\ (Len(args) = 1 /\ Matches(opt, args[1])) =>
              LET V == Remainder(opt, args[1])
                  X == parse_impl(opt, V)
              IN  ( /\ V # "" \/ ~HasImplicitValue(opt)
                    /\ X # <<>>
                    /\ PassesChecks(opt, X[1]) ) => ret = Expected(X)
        /\ NoTokenMatches(opt) => ~ret.ok

\* A checked option without default given '--width=10': 10 passes the checks.
C1_Witness ==
    /\ OptionDone
    /\ ~HasDefaultValue(opt)
    /\ opt.checks = <<positive, even>>
    /\ args = <<"--width=10">>
    /\ ret = Expected(<<IntV("int", 10)>>)

(***************************************************************************)
(* C2                                                                      *)
(***************************************************************************)
\* C2: match(T) of an option with patterns P1..Pn returns a remainder iff some
\* Pi is a prefix of T and T ends there (remainder "") or goes on with '='
\* (remainder: the text after it); the remainder is that of the earliest
\* attached such pattern; '-width=10' does not match '-w'.
C2_MatchEarliestAcceptingPattern ==
    MatchDone =>
        /\ ret.ok <=> Matches(opt, args[1])
        /\ IF Matches(opt, args[1])
           THEN ret.value = <<Remainder(opt, args[1])>>
           ELSE ret.value = <<>>
        /\ (opt.patterns = <<"-w">> /\ args[1] = "-width=10") => ~ret.ok

\* Two patterns accept the token with different remainders, and match
\* returned the remainder of the earlier one.
C2_Witness ==
    /\ MatchDone
    /\ Len(opt.patterns) = 2
    /\ Accepts(opt.patterns[1], args[1])
    /\ Accepts(opt.patterns[2], args[1])
    /\ TextAfter(opt.patterns[1], args[1]) # TextAfter(opt.patterns[2], args[1])
    /\ ret.value = <<TextAfter(opt.patterns[1], args[1])>>

(***************************************************************************)
(* C3                                                                      *)
(***************************************************************************)
\* C3 as stated: for an option with default value D and every list in which
\* no token matches its patterns, OptionInterface::parse and
\* CompoundOption::parse succeed with D, which is neither parsed nor validated.
C3_DefaultWheneverNoTokenMatches ==
    /\ (OptionDone /\ HasDefaultValue(opt) /\ NoTokenMatches(opt)) =>
           ret = Expected(<<DefaultOf(opt)>>) /\ calls[1] = <<>>
    /\ CompoundOptionDone =>
           \A k \in DOMAIN members :
               (HasDefaultValue(members[k]) /\ NoTokenMatches(members[k])) =>
                   ret.ok /\ ret.value[k] = DefaultOf(members[k]) /\ calls[k] = <<>>

\* C3 amended: for an option with default value D, OptionInterface::parse of
\* the empty list succeeds with D; CompoundOption::parse of a list in which no
\* token matches the option's patterns and every token is parsed by some
\* option completes the option with D, and has D in its field when it
\* succeeds; D is neither parsed nor validated.
C3_DefaultCompletesUnmatchedOption ==
    /\ (OptionDone /\ HasDefaultValue(opt) /\ args = <<>>) =>
           ret = Expected(<<DefaultOf(opt)>>) /\ calls[1] = <<>>
    /\ CompoundOptionDone =>
           \A k \in DOMAIN members :
               (HasDefaultValue(members[k]) /\ NoTokenMatches(members[k])) =>
                   /\ calls[k] = <<>>
                   /\ i = Len(args) =>
                          option_parse_results[k] = <<Expected(<<DefaultOf(members[k])>>)>>
                   /\ ret.ok => ret.value[k] = DefaultOf(members[k])

\* height (default 1080) declared after width, and only '-w=10' given.
C3_Witness ==
    /\ CompoundOptionDone
    /\ Len(members) = 2
    /\ members[2].var = "height"
    /\ args = <<"-w=10">>
    /\ ret = Expected(<<IntV("int", 10), IntV("int", 1080)>>)
    /\ calls[2] = <<>>

C5_DefaultImplicitOrConverted ==
    (OptionDone /\ HasDefaultValue(opt) /\ HasImplicitValue(opt)) =>
        /\ args = <<>> => ret = Expected(<<DefaultOf(opt)>>)
        /\ (Len(args) = 1 /\ IsPatternOf(opt, args[1])) => ret = Expected(<<ImplicitOf(opt)>>)
        /\ \A k \in DOMAIN opt.patterns :
              (Len(args) = 1 /\ HasValueFor(opt.patterns[k], args[1])) =>
                  LET X == parse_impl(opt, TextAfter(opt.patterns[k], args[1]))
                  IN  IF X # <<>> THEN ret = Expected(X) ELSE ~ret.ok

\* C5 amended: for an option with default D and implicit value I, [] parses to
\* D, and the list of one token that the option matches with remainder V
\* parses to I when V is empty (the bare pattern, and also 'P='), to the
\* converted value when V is not empty, converts and passes the attached
\* checks, and to a failure otherwise: a non-empty text that does not convert
\* is never replaced by D or I.
C5_DefaultImplicitOrConvertedNonEmpty ==
    (OptionDone /\ HasDefaultValue(opt) /\ HasImplicitValue(opt)) =>
        /\ args = <<>> => ret = Expected(<<DefaultOf(opt)>>)
        /\ (Len(args) = 1 /\ Matches(opt, args[1])) =>
              LET V == Remainder(opt, args[1])
                  X == parse_impl(opt, V)
              IN  IF V = "" THEN ret = Expected(<<ImplicitOf(opt)>>)
                  ELSE IF X # <<>> /\ PassesChecks(opt, X[1]) THEN ret = Expected(X)
                  ELSE ~ret.ok /\ ret.value = <<>>

\* A boolean option with default false and implicit true given '-w=foo'.
C5_Witness ==
    /\ OptionDone
    /\ opt.value_type = "bool"
    /\ opt.custom_parser = "none"
    /\ opt.default_value = <<BoolV(FALSE)>>
    /\ opt.implicit_value = <<BoolV(TRUE)>>
    /\ args = <<"-w=foo">>
    /\ ret = Error("Could not convert argument \"foo\" to type bool")

(***************************************************************************)
(* C6                                                                      *)
(***************************************************************************)
MatchesNoOption(T) == \A k \in DOMAIN members : ~Matches(members[k], T)

SomeTokenMatchesNoOption == \E n \in DOMAIN args : MatchesNoOption(args[n])

\* C6 as stated: CompoundOption::parse of a list that holds a token matching
\* none of the declared patterns fails with an 'Unrecognized argument' error
\* that names such a token.
C6_UnmatchedTokenIsNamed ==
    (CompoundOptionDone /\ SomeTokenMatchesNoOption) =>
        /\ ~ret.ok
        /\ \E n \in DOMAIN args :
              MatchesNoOption(args[n]) /\ ret.error = Unrecognized(args[n])

\* C6 amended: CompoundOption::parse of a list that holds a token matching
\* none of the declared patterns fails with an 'Unrecognized argument' error;
\* the error names the first token that no option parsed when its turn came,
\* which matches no declared pattern or only patterns of options that an
\* earlier token resolved.
C6_UnmatchedTokenFailsTheParse ==
    (CompoundOptionDone /\ SomeTokenMatchesNoOption) =>
        /\ ~ret.ok
        /\ i < Len(args)
        /\ Len(claimed_by) = i
        /\ ret.error = Unrecognized(args[i + 1])
        /\ \A k \in DOMAIN members :
              Matches(members[k], args[i + 1]) => \E n \in 1..i : claimed_by[n] = k

\* Every option has a default value or was given its token, and the last
\* token matches nothing.
C6_Witness ==
    /\ CompoundOptionDone
    /\ Len(members) = 2
    /\ members[1].var = "height"
    /\ members[2].var = "width"
    /\ args = <<"-w=10", "--unrecognized=5">>
    /\ ret = Error("Unrecognized argument \"--unrecognized=5\"")

(***************************************************************************)
(* C7                                                                      *)
(***************************************************************************)
\* Each option parsed at most one token, and a token that comes after the
\* token an option parsed and matches only that option's patterns makes the
\* parse fail as unrecognized, at that token or before it.
AtMostOneTokenPerOption ==
    parser.shape = "CompoundOption" =>
        /\ \A a, b \in DOMAIN claimed_by : a # b => claimed_by[a] # claimed_by[b]
        /\ pc = "done" =>
              \A a \in DOMAIN claimed_by : \A b \in DOMAIN args :
                  ( /\ a < b
                    /\ \A k \in DOMAIN members :
                          Matches(members[k], args[b]) <=> k = claimed_by[a] ) =>
                      /\ ~ret.ok
                      /\ i < b
                      /\ ret.error = Unrecognized(args[i + 1])

\* A stored result stays as it is in every step of the parse call.
StoredResultKept ==
    pc = "start" =>
    \A k \in DOMAIN option_parse_results :
        option_parse_results[k] # <<>> =>
            option_parse_results'[k] = option_parse_results[k]

\* C7: in CompoundOption::parse an option is resolved by at most one token; a
\* later token matching only that option's patterns is unrecognized and the
\* parse fails; the result stored from the first token is never overwritten.
C7_OptionResolvedAtMostOnce == []AtMostOneTokenPerOption /\ [][StoredResultKept]_vars

\* width parsed '-w=10'; '--width=30' came later and was not recognized.
C7_Witness ==
    /\ CompoundOptionDone
    /\ members[1].var = "width"
    /\ Len(args) >= 2
    /\ args[1] = "-w=10"
    /\ args[2] = "--width=30"
    /\ claimed_by = <<1>>
    /\ option_parse_results[1] = <<Expected(<<IntV("int", 10)>>)>>
    /\ ret = Error("Unrecognized argument \"--width=30\"")

(***************************************************************************)
(* C8                                                                      *)
(***************************************************************************)
\* What a parse yields, whatever the error text: success or failure, and the
\* field values.
Outcome(r) == <<r.ok, r.value>>

Permuted(f) == [n \in DOMAIN args |-> args[f[n]]]

SamePermutedOutcome ==
    \A f \in Permutations(DOMAIN args) :
        Outcome(CompoundOption_parse(members, Permuted(f))) = Outcome(ret)

\* No token is matched by the patterns of two options.
NoSharedToken ==
    \A n \in DOMAIN args : \A j, k \in DOMAIN members :
        (Matches(members[j], args[n]) /\ Matches(members[k], args[n])) => j = k

\* C8 as stated: the success or failure of CompoundOption::parse and the field
\* values are the same for every permutation of the token list.
C8_OrderIndependent == CompoundOptionDone => SamePermutedOutcome

\* C8 amended: when no token is matched by the patterns of two different
\* options, the success or failure of CompoundOption::parse and the field
\* values are the same for every permutation of the token list.
C8_OrderIndependentWithoutSharedPatterns ==
    (CompoundOptionDone /\ NoSharedToken) => SamePermutedOutcome

\* Two options, each given its token, the second option's token first.
C8_Witness ==
    /\ CompoundOptionDone
    /\ NoSharedToken
    /\ Len(members) = 2
    /\ args = <<"-h=6", "--width=30">>
    /\ claimed_by = <<2, 1>>
    /\ ret = Expected(<<IntV("int", 30), IntV("int", 6)>>)

(***************************************************************************)
(* C9                                                                      *)
(***************************************************************************)
Numeral(n) ==
    CASE n = 0 -> "0" [] n = 1 -> "1" [] n = 2 -> "2" [] n = 3 -> "3" [] n = 4 -> "4"
      [] n = 5 -> "5" [] n = 6 -> "6" [] n = 7 -> "7" [] n = 8 -> "8" [] n = 9 -> "9"

TooMany == "Too many arguments."

\* C9: CompoundArgument::parse fails with the 'too many arguments' error,
\* which reports the number of tokens and the number of declared arguments,
\* exactly when there are more tokens than declared arguments, and then no
\* argument is resolved.
C9_TooManyArguments ==
    CompoundArgumentDone =>
        IF Len(args) > Len(members)
        THEN /\ ~ret.ok
             /\ ret.error = TooMany \o " Provided" \o Numeral(Len(args))
                                \o "arguments. Program expects " \o Numeral(Len(members))
             /\ \A k \in DOMAIN members : calls[k] = <<>>
        ELSE ~starts_with(ret.error, TooMany)

\* Three tokens for two declared arguments.
C9_Witness ==
    /\ CompoundArgumentDone
    /\ Len(members) = 2
    /\ Len(args) = 3
    /\ ret = Error("Too many arguments. Provided3arguments. Program expects 2")

(***************************************************************************)
(* C10                                                                     *)
(***************************************************************************)
\* Argument k was resolved from token k, or from no token when the list is
\* shorter.
ResolvedByPosition ==
    \A k \in DOMAIN members :
        IF k <= Len(args)
        THEN /\ calls[k] = <<[fn |-> "parse_impl", text |-> args[k], val |-> <<>>]>>
             /\ ret.ok => <<ret.value[k]>> = parse_impl(members[k], args[k])
        ELSE /\ calls[k] = <<>>
             /\ ret.ok => HasDefaultValue(members[k]) /\ ret.value[k] = DefaultOf(members[k])

TwoDifferentlyTyped ==
    /\ Len(members) = 2
    /\ members[1].value_type # members[2].value_type
    /\ Len(args) = 2
    /\ args[1] # args[2]

Reversed == CompoundArgument_parse(members, <<args[2], args[1]>>).res

\* C10 as stated: argument i is resolved from token i; for two differently
\* typed arguments the reversed list fails or yields other values than the
\* in-order list.
C10_ReversedNeverYieldsInOrderValues ==
    (CompoundArgumentDone /\ Len(args) <= Len(members)) =>
        /\ ResolvedByPosition
        /\ (TwoDifferentlyTyped /\ ret.ok) => (~Reversed.ok \/ Reversed.value # ret.value)

\* C10 amended: argument i is resolved from token i (from no token when the
\* list is shorter); for two differently typed arguments the reversed list
\* fails or yields, for each argument, the conversion of the other token,
\* which are the in-order values only when each argument converts both tokens
\* to the same value.
C10_ReversedResolvedByPosition ==
    (CompoundArgumentDone /\ Len(args) <= Len(members)) =>
        /\ ResolvedByPosition
        /\ (TwoDifferentlyTyped /\ Reversed.ok) =>
              /\ <<Reversed.value[1]>> = parse_impl(members[1], args[2])
              /\ <<Reversed.value[2]>> = parse_impl(members[2], args[1])
              /\ (ret.ok /\ Reversed.value = ret.value) =>
                    /\ parse_impl(members[1], args[1]) = parse_impl(members[1], args[2])
                    /\ parse_impl(members[2], args[1]) = parse_impl(members[2], args[2])

\* An int and a string_view argument: both orders parse, to different values.
C10_Witness ==
    /\ CompoundArgumentDone
    /\ TwoDifferentlyTyped
    /\ args = <<"1920", "5">>
    /\ ret = Expected(<<IntV("int", 1920), StrV("std::string_view", "5")>>)
    /\ Reversed = Expected(<<IntV("int", 5), StrV("std::string_view", "1920")>>)

(***************************************************************************)
(* C11                                                                     *)
(***************************************************************************)
CompoundParserDone == parser.shape = "CompoundParser" /\ pc = "done"

StartsWithDash(T) == Len(T) > 0 /\ SubSeq(T, 1, 1) = "-"

\* The number of tokens in front of the first token that starts with '-'.
TokensBeforeFirstDash ==
    LET dashes == {n \in DOMAIN args : StartsWithDash(args[n])}
    IN  IF dashes = {} THEN Len(args) ELSE Earliest(dashes) - 1

\* C11: CompoundParser::parse hands the tokens in front of the first token
\* starting with '-' to the positional parser and all the tokens from that one
\* on to the option parser (run only when the positional parser succeeded); it
\* returns the failure of the one that failed or else the fields of both.  No
\* token starting with '-' reaches the positional parser, and a token that does
\* not start with '-' placed after one that does makes the parse fail.
C11_SplitAtFirstDash ==
    CompoundParserDone =>
        LET n == TokensBeforeFirstDash
            before == SubSeq(args, 1, n)
            from_dash == SubSeq(args, n + 1, Len(args))
            positional == CompoundArgument_parse(members[1].members, before).res
            options == CompoundOption_parse(members[2].members, from_dash)
        IN  /\ calls[1] = <<[fn |-> "parse", text |-> before, val |-> <<positional>>]>>
            /\ \A t \in DOMAIN calls[1][1].text : ~StartsWithDash(calls[1][1].text[t])
            /\ IF ~positional.ok
               THEN calls[2] = <<>> /\ ret = positional
               ELSE /\ calls[2] = <<[fn |-> "parse", text |-> from_dash, val |-> <<options>>]>>
                    /\ ret = IF ~options.ok
                             THEN options
                             ELSE Expected(positional.value \o options.value)
            /\ (\E a, b \in DOMAIN args :
                    a < b /\ StartsWithDash(args[a]) /\ ~StartsWithDash(args[b])) => ~ret.ok

\* 'Foobar' comes after '--fullscreen': it is handed to the option parser,
\* which does not recognize it.
C11_Witness ==
    /\ CompoundParserDone
    /\ args = <<"1920", "--fullscreen", "Foobar">>
    /\ members[1].members = <<clp_Arg("int", "width", "width")>>
    /\ members[2].members = <<WithPattern(clp_Flag("fullscreen"), "--fullscreen")>>
    /\ calls[1][1].text = <<"1920">>
    /\ calls[2][1].text = <<"--fullscreen", "Foobar">>
    /\ ret = Error("Unrecognized argument \"Foobar\"")

(***************************************************************************)
(* C12                                                                     *)
(***************************************************************************)
CommandSelectorDone == parser.shape = "CommandSelector" /\ pc = "done"

\* T is a word of the command: the name of a Command, one of the four
\* spellings of Help.
Named(command, T) ==
    \/ command.kind = "Command" /\ T = command.name
    \/ command.kind = "Help" /\ T \in {"--help", "-h", "-?", "help"}

NamedBySome(commands, T) == \E k \in DOMAIN commands : Named(commands[k], T)

FirstNamed(commands, T) == Earliest({k \in DOMAIN commands : Named(commands[k], T)})

\* What the command yields on the tokens that follow its word.
SubParse(command, tokens) ==
    IF command.kind = "Help" THEN Expected(<<>>) ELSE Parser_parse(command.parser, tokens)

\* The tokens the parsers of the command were called with.
ParsedBy(log) == {log[e].text : e \in {x \in DOMAIN log : log[x].fn = "parse"}}

\* C12: on a non-empty list CommandSelector::parse selects the first command
\* in declaration order whose name equals token 0 (no other command is called,
\* a later one of the same name included), its parser is called exactly with
\* the tokens after token 0, and on success the result is that parser's value
\* tagged with the index of the command.
C12_FirstCommandNamedByTokenZero ==
    (CommandSelectorDone /\ Len(args) > 0 /\ NamedBySome(members, args[1])) =>
        LET k == FirstNamed(members, args[1])
            sub == SubParse(members[k], Tail(args))
        IN  /\ \A j \in DOMAIN members : j # k => calls[j] = <<>>
            /\ calls[k] # <<>>
            /\ calls[k][1] = [fn |-> "parse_command", text |-> args, val |-> <<sub>>]
            /\ members[k].kind = "Command" => ParsedBy(calls[k]) = {Tail(args)}
            /\ sub.ok => ret = Expected(<<k - 1, sub.value>>)

\* Two commands named 'open-window': the first one parsed '-w=10', the second
\* one would not have recognized it.
C12_Witness ==
    /\ CommandSelectorDone
    /\ members = <<Command("open-window", CompoundOption(<<width, height>>)),
                   Command("open-window", OptionInterface(dry_run))>>
    /\ args = <<"open-window", "-w=10">>
    /\ ParsedBy(calls[1]) = {<<"-w=10">>}
    /\ calls[2] = <<>>
    /\ ret = Expected(<<0, <<IntV("int", 10), IntV("int", 1080)>>>>)

(***************************************************************************)
(* C13                                                                     *)
(***************************************************************************)
NoCommandCalled == \A k \in DOMAIN calls : calls[k] = <<>>

\* C13: CommandSelector::parse fails with 'Expected command.' on the empty
\* list and with 'Unrecognized command "<token 0>"' when no command name
\* equals token 0, and it calls no command in either case.
C13_ExpectedOrUnrecognizedCommand ==
    CommandSelectorDone =>
        /\ Len(args) = 0 => ret = Error("Expected command.") /\ NoCommandCalled
        /\ (Len(args) > 0 /\ ~NamedBySome(members, args[1])) =>
               /\ ret = Error("Unrecognized command \"" \o args[1] \o "\"")
               /\ NoCommandCalled

\* 'login' is the word of no declared command, whatever comes after it.
C13_Witness ==
    /\ CommandSelectorDone
    /\ members = <<Command("open-window", CompoundOption(<<width, height>>)), Help>>
    /\ args = <<"login", "-h">>
    /\ ret = Error("Unrecognized command \"login\"")
    /\ NoCommandCalled

(***************************************************************************)
(* C14                                                                     *)
(***************************************************************************)
CommandWithSharedOptionsDone == parser.shape = "CommandWithSharedOptions" /\ pc = "done"
CommandWithImplicitCommandDone == parser.shape = "CommandWithImplicitCommand" /\ pc = "done"

\* The positions of the tokens that are the word of some command.
CommandWords(commands) == {n \in DOMAIN args : NamedBySome(commands, args[n])}

\* C14: when the command named by token 0 is called and its parser fails, the
\* parse fails with exactly that parser's error: a CommandSelector calls no
\* later command, a CommandWithImplicitCommand does not call the implicit
\* parser, and a CommandWithSharedOptions, whose command word is the first
\* token naming a command and which calls the command once the shared parser
\* has succeeded, returns the error as well.
C14_SubParserErrorIsReturned ==
    /\ (CommandSelectorDone /\ Len(args) > 0 /\ NamedBySome(members, args[1])) =>
           LET k == FirstNamed(members, args[1])
               sub == SubParse(members[k], Tail(args))
           IN  ~sub.ok =>
                   /\ ret = Error(sub.error)
                   /\ \A j \in DOMAIN members : j # k => calls[j] = <<>>
    /\ (CommandWithImplicitCommandDone /\ Len(args) > 0
            /\ NamedBySome(members[1].members, args[1])) =>
           LET commands == members[1].members
               sub == SubParse(commands[FirstNamed(commands, args[1])], Tail(args))
           IN  ~sub.ok => ret = Error(sub.error) /\ calls[2] = <<>>
    /\ (CommandWithSharedOptionsDone /\ CommandWords(members[2].members) # {}) =>
           LET commands == members[2].members
               n == Earliest(CommandWords(commands))
               sub == SubParse(commands[FirstNamed(commands, args[n])],
                               SubSeq(args, n + 1, Len(args)))
           IN  (calls[2] # <<>> /\ ~sub.ok) => ret = Error(sub.error)

\* The first 'open-window' needs a width and fails; the second one, which
\* would have succeeded, and the implicit parser are not called.
C14_Witness ==
    /\ CommandWithImplicitCommandDone
    /\ members[1].members = <<Command("open-window", CompoundOption(<<width, height>>)),
                              Command("open-window", OptionInterface(dry_run))>>
    /\ args = <<"open-window", "--dry-run">>
    /\ ret = Error("Unrecognized argument \"--dry-run\"")
    /\ calls[2] = <<>>

(***************************************************************************)
(* C15                                                                     *)
(***************************************************************************)
\* C15: CommandWithSharedOptions::parse splits the list at the first token
\* that is the word of a declared command: the shared parser is called with
\* the tokens in front of it and its failure is returned without the command
\* being parsed; otherwise the CommandSelector is called with the tokens from
\* the command word on, the word included, and the result holds the shared
\* result and the command result, or is the selector's failure.
C15_SplitAtFirstCommandWord ==
    (CommandWithSharedOptionsDone /\ CommandWords(members[2].members) # {}) =>
        LET n == Earliest(CommandWords(members[2].members))
            before == SubSeq(args, 1, n - 1)
            from_word == SubSeq(args, n, Len(args))
            shared == Parser_parse(members[1], before)
            command == CommandSelector_parse(members[2].members, from_word).res
        IN  /\ calls[1] = <<[fn |-> "parse", text |-> before, val |-> <<shared>>]>>
            /\ IF ~shared.ok
               THEN calls[2] = <<>> /\ ret = Error(shared.error)
               ELSE /\ calls[2] = <<[fn |-> "parse", text |-> from_word, val |-> <<command>>]>>
                    /\ ret = IF ~command.ok
                             THEN Error(command.error)
                             ELSE Expected(<<shared.value, command.value>>)

\* '--dry-run' in front of the command word is a shared option; 'login' after
\* 'open-window' goes to the command, which does not recognize it.
C15_Witness ==
    /\ CommandWithSharedOptionsDone
    /\ members[1] = CompoundOption(<<WithDefaultValue(root_path, StrV("std::string_view", ".")),
                                     dry_run>>)
    /\ members[2].members = <<Command("open-window", OptionInterface(dry_run)),
                              Command("login", PositionalArgumentInterface(username))>>
    /\ args = <<"--dry-run", "open-window", "--dry-run">>
    /\ calls[1][1].text = <<"--dry-run">>
    /\ calls[2][1].text = <<"open-window", "--dry-run">>
    /\ ret = Expected(<<<<StrV("std::string_view", "."), BoolV(TRUE)>>, <<0, <<BoolV(TRUE)>>>>>>)

(***************************************************************************)
(* C16                                                                     *)
(***************************************************************************)
\* The options a command declares: those of its parser when it is a parser of
\* options; a parser of positional arguments and Help declare no pattern.
DeclaredOptions(command) ==
    IF command.kind = "Command" /\ command.parser.shape \in {"OptionInterface", "CompoundOption"}
    THEN {command.parser.members[m] : m \in DOMAIN command.parser.members}
    ELSE {}

TakesOptionsOnly(command) ==
    command.kind = "Command" /\ command.parser.shape \in {"OptionInterface", "CompoundOption"}

AllHaveDefaults(decls) == \A m \in DOMAIN decls : HasDefaultValue(decls[m])

Defaults(decls) == [m \in DOMAIN decls |-> DefaultOf(decls[m])]

\* A token after the command word that matches a shared option and no option
\* declared by the command.
SharedOptionTokenAfterWord(shared, command) ==
    \E n \in 2..Len(args) :
        /\ \E m \in DOMAIN shared : Matches(shared[m], args[n])
        /\ \A o \in DeclaredOptions(command) : ~Matches(o, args[n])

\* C16 as stated: when token 0 is the command word, every shared option takes
\* its default value, and a shared-option token after the word makes the parse
\* fail unless the command itself declares a pattern matching it.
C16_SharedOptionAfterWordFails ==
    (CommandWithSharedOptionsDone /\ Len(args) > 0
         /\ NamedBySome(members[2].members, args[1])) =>
        LET shared == members[1].members
            command == members[2].members[FirstNamed(members[2].members, args[1])]
        IN  /\ AllHaveDefaults(shared) => calls[1][1].val[1] = Expected(Defaults(shared))
            /\ SharedOptionTokenAfterWord(shared, command) => ~ret.ok

\* C16: when token 0 is the command word the shared parser is called with no
\* token: every shared option takes its default value, and the parse fails
\* without the command being called when one of them has none.  All the tokens
\* after the word go to the command, so a shared-option token there makes the
\* parse fail when the command's parser is a parser of options none of which
\* matches the token; a parser of positional arguments may take the token as a
\* value, and Help succeeds whatever follows its word.
C16_SharedOptionAfterWordGoesToCommand ==
    (CommandWithSharedOptionsDone /\ Len(args) > 0
         /\ NamedBySome(members[2].members, args[1])) =>
        LET shared == members[1].members
            k == FirstNamed(members[2].members, args[1])
            command == members[2].members[k]
            sub == SubParse(command, Tail(args))
        IN  /\ Len(calls[1]) = 1 /\ calls[1][1].text = <<>>
            /\ IF AllHaveDefaults(shared)
               THEN /\ calls[1][1].val[1] = Expected(Defaults(shared))
                    /\ Len(calls[2]) = 1 /\ calls[2][1].text = args
                    /\ ret = IF sub.ok
                             THEN Expected(<<Defaults(shared), <<k - 1, sub.value>>>>)
                             ELSE Error(sub.error)
               ELSE ~ret.ok /\ calls[2] = <<>>
            /\ (TakesOptionsOnly(command) /\ SharedOptionTokenAfterWord(shared, command)) =>
                   ~ret.ok

\* '--dry-run' after 'open-window', whose options are width and height: the
\* command does not recognize it, and dry_run would have been false.
C16_Witness ==
    /\ CommandWithSharedOptionsDone
    /\ members[1] = CompoundOption(<<WithDefaultValue(root_path, StrV("std::string_view", ".")),
                                     dry_run>>)
    /\ members[2].members = <<Command("open-window", CompoundOption(<<width, height>>))>>
    /\ args = <<"open-window", "-w=10", "--dry-run">>
    /\ calls[1][1].val[1] = Expected(<<StrV("std::string_view", "."), BoolV(FALSE)>>)
    /\ calls[2][1].text = args
    /\ ret = Error("Unrecognized argument \"--dry-run\"")

(***************************************************************************)
(* C17                                                                     *)
(***************************************************************************)
\* C17: CommandWithSharedOptions::parse fails with 'Expected command.' on
\* every list, the empty one included, in which no token is the word of a
\* declared command, whatever the tokens are, and calls neither the shared
\* parser nor the selector.
C17_ExpectedCommandWithoutCommandWord ==
    (CommandWithSharedOptionsDone /\ CommandWords(members[2].members) = {}) =>
        ret = Error("Expected command.") /\ calls = <<<<>>, <<>>>>

\* '--dry-run' is a valid shared option and '-w=10' an option of open-window,
\* but no token is a command word.
C17_Witness ==
    /\ CommandWithSharedOptionsDone
    /\ members[1] = OptionInterface(root_path)
    /\ members[2].members = <<Command("open-window", CompoundOption(<<width, height>>))>>
    /\ args = <<"--dry-run", "-w=10">>
    /\ ret = Error("Expected command.")
    /\ calls = <<<<>>, <<>>>>

(***************************************************************************)
(* C18                                                                     *)
(***************************************************************************)
\* C18: once CommandWithImplicitCommand::parse has been called, it has
\* returned; it called the CommandSelector, with the whole list, if and only
\* if token 0 is the word of a declared command, and otherwise the implicit
\* parser, with the whole list; the result is the value of the parser called,
\* tagged with the alternative of the command or, for the implicit parser,
\* with the alternative after those of the commands.
C18_SelectorIffTokenZeroNamesCommand ==
    (parser.shape = "CommandWithImplicitCommand" /\ pc # "start") =>
        LET commands == members[1].members
            selected == CommandSelector_parse(commands, args).res
            implicit == Parser_parse(members[2], args)
        IN  /\ pc = "done"
            /\ IF Len(args) > 0 /\ NamedBySome(commands, args[1])
               THEN /\ calls = << <<[fn |-> "parse", text |-> args, val |-> <<selected>>]>>,
                                  <<>> >>
                    /\ ret = IF selected.ok
                             THEN Expected(selected.value)
                             ELSE Error(selected.error)
               ELSE /\ calls = << <<>>,
                                  <<[fn |-> "parse", text |-> args, val |-> <<implicit>>]>> >>
                    /\ ret = IF implicit.ok
                             THEN Expected(<<Len(commands), implicit.value>>)
                             ELSE Error(implicit.error)

(***************************************************************************)
(* C19                                                                     *)
(***************************************************************************)
CombineDone == parser.shape = "operator |" /\ pc = "done"

\* The declarations of three single operands, in the order of the operands.
Declarations == [k \in 1..3 |-> members[k].members[1]]

\* C19: for three options a, b, c the compounds (a | b) | c and a | (b | c)
\* are the same CompoundOption whose members are the declarations a, b, c in
\* this order, none of them a compound, and both parse the token list to the
\* same outcome; the same holds of three positional arguments, which yield a
\* CompoundArgument, and of three commands, which yield a CommandSelector.
C19_GroupingYieldsTheSameFlatCompound ==
    (CombineDone /\ Len(members) = 3) =>
        LET left == ret.value[1]
            right == ret.value[2]
        IN  /\ (\A k \in 1..3 : members[k] \in OptionOperands) =>
                   /\ left = [shape |-> "CompoundOption", members |-> Declarations]
                   /\ right = left
                   /\ CompoundOption_parse(left.members, args)
                          = CompoundOption_parse(right.members, args)
            /\ (\A k \in 1..3 : members[k] \in ArgumentOperands) =>
                   /\ left = [shape |-> "CompoundArgument", members |-> Declarations]
                   /\ right = left
                   /\ CompoundArgument_parse(left.members, args).res
                          = CompoundArgument_parse(right.members, args).res
            /\ (\A k \in 1..3 : members[k] \in Commands) =>
                   /\ left = [shape |-> "CommandSelector", members |-> members]
                   /\ right = left
                   /\ CommandSelector_parse(left.members, args).res
                          = CommandSelector_parse(right.members, args).res

\* fullscreen | width | height in both groupings, parsing two tokens.
C19_Witness ==
    /\ CombineDone
    /\ members = <<OptionInterface(WithPattern(clp_Flag("fullscreen"), "--fullscreen")),
                   OptionInterface(width), OptionInterface(height)>>
    /\ args = <<"-w=10", "--fullscreen">>
    /\ ret.value[1] = ret.value[2]
    /\ ret.value[1].members =
           <<WithPattern(clp_Flag("fullscreen"), "--fullscreen"), width, height>>
    /\ CompoundOption_parse(ret.value[2].members, args)
           = Expected(<<BoolV(TRUE), IntV("int", 10), IntV("int", 1080)>>)

(***************************************************************************)
(* C20                                                                     *)
(***************************************************************************)
PositionalShaped(x) == x.shape \in {"PositionalArgumentInterface", "CompoundArgument"}
OptionShaped(x) == x.shape \in {"OptionInterface", "CompoundOption"}

\* The CompoundParser that pairs the positional arguments with the options.
Pairing(positional, options) ==
    [shape |-> "CompoundParser",
     members |-> <<[shape |-> "CompoundArgument", members |-> positional.members],
                   [shape |-> "CompoundOption", members |-> options.members]>>]

\* C20 as stated: positional | option and option | positional both yield the
\* CompoundParser that pairs the two operands.
C20_EitherOrderYieldsCompoundParser ==
    (CombineDone /\ Len(members) = 2) =>
        /\ (PositionalShaped(members[1]) /\ OptionShaped(members[2])) =>
               ret.value[1] = Pairing(members[1], members[2])
        /\ (OptionShaped(members[1]) /\ PositionalShaped(members[2])) =>
               ret.value[1] = Pairing(members[2], members[1])

\* C20: positional | option yields the CompoundParser that pairs the two
\* operands, each of them single or compound; option | positional selects no
\* overload of the operator.
C20_PositionalThenOptionYieldsCompoundParser ==
    (CombineDone /\ Len(members) = 2) =>
        /\ (PositionalShaped(members[1]) /\ OptionShaped(members[2])) =>
               ret.value[1] = Pairing(members[1], members[2])
        /\ (OptionShaped(members[1]) /\ PositionalShaped(members[2])) =>
               ret.value[1].shape = "no viable operator |"

\* username | (width | height): a positional argument and a compound of options.
C20_Witness ==
    /\ CombineDone
    /\ members = <<PositionalArgumentInterface(username), CompoundOption(<<width, height>>)>>
    /\ ret = Expected(<<CompoundParser(CompoundArgument(<<username>>),
                                       CompoundOption(<<width, height>>))>>)

(***************************************************************************)
(* C21                                                                     *)
(***************************************************************************)
\* The invocations of the attached predicates that the parse made.
PredicateCalls == SelectSeq(calls[1], LAMBDA e : e.fn = "predicate")

\* The checks that fail on value, by their position in attachment order.
FailingChecks(decl, value) ==
    {c \in DOMAIN decl.checks : ~validation_predicate(decl.checks[c], value)}

EndsWith(text, suffix) ==
    Len(suffix) <= Len(text) /\ SubSeq(text, Len(text) - Len(suffix) + 1, Len(text)) = suffix

\* C21: the predicates attached by successive check() calls are evaluated in
\* attachment order on the converted value and only after the conversion
\* succeeded; the evaluation stops at the first predicate that fails, and the
\* validation error that is returned ends with that predicate's own message.
C21_ChecksInAttachmentOrder ==
    (OptionDone /\ Len(args) = 1 /\ Matches(opt, args[1])) =>
        LET V == Remainder(opt, args[1])
            X == parse_impl(opt, V)
        IN  IF (V = "" /\ HasImplicitValue(opt)) \/ X = <<>>
            THEN PredicateCalls = <<>>
            ELSE LET failing == FailingChecks(opt, X[1])
                     evaluated == IF failing = {} THEN Len(opt.checks) ELSE Earliest(failing)
                 IN  /\ Len(PredicateCalls) = evaluated
                     /\ \A c \in 1..evaluated :
                           /\ PredicateCalls[c].text = opt.checks[c].error_message
                           /\ PredicateCalls[c].val = X
                     /\ IF failing = {}
                        THEN ret = Expected(X)
                        ELSE /\ ~ret.ok
                             /\ starts_with(ret.error, "Validation check failed for option ")
                             /\ EndsWith(ret.error,
                                         opt.checks[Earliest(failing)].error_message)

\* The checks 'w > 0' then 'w even' and the value 15: both predicates were
\* evaluated, and the error carries the message of the second.
C21_Witness ==
    /\ OptionDone
    /\ opt.checks = <<positive, even>>
    /\ opt.patterns = <<"-w">>
    /\ args = <<"-w=15">>
    /\ Len(PredicateCalls) = 2
    /\ ret = Error("Validation check failed for option -wwith argument \"15\":\n\tWidth must be even.")

(***************************************************************************)
(* C22                                                                     *)
(***************************************************************************)
DeclarationDone == parser.shape = "declaration" /\ pc = "done"

\* The declaration compiled to a type.
Declared == DeclarationDone /\ ret.ok

\* C22: whatever decorators are attached to an option or a positional
\* argument, the declared parser carries at most one default value, one
\* implicit value, one custom parser and one custom hint: the declaration in
\* which a second one is attached is rejected.
C22_AtMostOneOfEachKind ==
    Declared =>
        \A layer \in {"WithDefaultValue", "WithImplicitValue", "WithCustomParser",
                      "WithCustomHint"} :
            Cardinality(Carries(ret.value, layer)) <= 1

(***************************************************************************)
(* C23                                                                     *)
(***************************************************************************)
\* A parse call that returned on the token list of the first call returned
\* what the first call returned.
SameOutcomeAsEarlier ==
    (pc = "done" /\ earlier # <<>> /\ args = earlier[1].args) => ret = earlier[1].ret

DeclarationsKept == parser' = parser

\* C23: parsing is a pure function of the parser and the token list: no step
\* changes a declaration of the parser, and in every sequence of parse calls on
\* the same parser the calls on equal token lists return equal outcomes.
C23_ParseIsPure == [][DeclarationsKept]_vars /\ []SameOutcomeAsEarlier

\* The same, for the parsers other than CommandWithImplicitCommand.
PureButImplicitCommand ==
    [][DeclarationsKept]_vars
        /\ [](parser.shape # "CommandWithImplicitCommand" => SameOutcomeAsEarlier)

(***************************************************************************)
(* C24                                                                     *)
(***************************************************************************)
\* C24: for every parser and every token list, the empty one included, the
\* parse call ends in a normal return, a value or an error; it never ends the
\* program by reading a token that the list does not have, and with no token
\* in the list no command is selected by a token 0.
C24_ParseReturnsNormally ==
    /\ parser.shape \in ParsingShapes => pc # "crashed"
    /\ (parser.shape = "CommandWithImplicitCommand" /\ pc = "done" /\ args = <<>>) =>
           calls[1] = <<>>

(***************************************************************************)
(* C25                                                                     *)
(***************************************************************************)
\* The options that the scan and the completion with default values left
\* unresolved, and those whose token failed to parse.
UnresolvedOptions == {k \in DOMAIN members : option_parse_results[k] = <<>>}
FailedOptions ==
    {k \in DOMAIN members : option_parse_results[k] # <<>> /\ ~option_parse_results[k][1].ok}

\* The error of option k itself: that of its token, or that of the option
\* parsed alone with no token.
OwnOptionError(k) ==
    IF option_parse_results[k] = <<>>
    THEN OptionInterface_parse_args(members[k], <<>>).res.error
    ELSE option_parse_results[k][1].error

\* The results of the positional arguments, each on its own token.
ArgumentResults == CompoundArgument_results(members, args)
FailedArguments == {k \in DOMAIN members : ~ArgumentResults[k].res.ok}

\* The scan of CompoundOption::parse went through every token.
ScanCompleted == CompoundOptionDone /\ i = Len(args)

\* CompoundArgument::parse was given no more tokens than arguments.
NotTooMany == CompoundArgumentDone /\ Len(args) <= Len(members)

FailedTokens ==
    {n \in DOMAIN claimed_by : ~option_parse_results[claimed_by[n]][1].ok}

\* C26 as stated: CompoundOption::parse reports failures in token scan order
\* and immediately: the conversion or validation failure of the first claimed
\* token that fails is the error returned, even when a later token is
\* unrecognized.
C26_FailuresInScanOrder ==
    (CompoundOptionDone /\ FailedTokens # {}) =>
        ret.error = option_parse_results[claimed_by[Earliest(FailedTokens)]][1].error

\* C26 amended: the conversion or validation failure of a claimed token does
\* not end the scan: it is stored as the result of the option and the scan
\* goes on.  The parse then fails, with 'Unrecognized argument' naming the
\* first later token that no option parses if there is one, and otherwise,
\* after the last token, with the generic 'Unmatched option' or 'Option failed
\* to parse'; only an unrecognized token is reported at once.
C26_FailureReportedAfterScan ==
    (CompoundOptionDone /\ FailedTokens # {}) =>
        /\ ~ret.ok
        /\ IF i < Len(args)
           THEN /\ \A n \in FailedTokens : n <= i
                /\ ret.error = Unrecognized(args[i + 1])
           ELSE ret.error = IF UnresolvedOptions # {} THEN "Unmatched option"
                            ELSE "Option failed to parse"

\* width failed to convert 'foo', and the unrecognized token after it is what
\* the error names.
C26_Witness ==
    /\ CompoundOptionDone
    /\ members[1].var = "width"
    /\ args = <<"-w=foo", "--unrecognized=5">>
    /\ claimed_by = <<1>>
    /\ FailedTokens = {1}
    /\ ret = Error("Unrecognized argument \"--unrecognized=5\"")

(***************************************************************************)
(* C27                                                                     *)
(***************************************************************************)
ArgumentDone == parser.shape = "PositionalArgumentInterface" /\ pc = "done"

\* decl is what clp_Arg(T, var, N) declares, a default value attached or not.
DeclaredByArg(decl, T, N) == [decl EXCEPT !.default_value = <<>>] = clp_Arg(T, decl.var, N)

\* C27: for a positional argument declared as Arg(T, var, N), the empty list
\* and no default value yield the error 'Missing argument N', N being the
\* declared name and not the type label, and a token that does not convert
\* yields a conversion error that names the type label T and not the name.
C27_MissingNamesTheArgument ==
    ArgumentDone =>
        \A T \in {"int", "int16_t", "std::string_view"}, N \in {"width", "port", "username"} :
            DeclaredByArg(opt, T, N) =>
                /\ (args = <<>> /\ ~HasDefaultValue(opt)) =>
                       ret = Error("Missing argument " \o N)
                /\ (Len(args) = 1 /\ parse_impl(opt, args[1]) = <<>>) =>
                       ret = Error("Could not convert argument \"" \o args[1]
                                       \o "\" to type " \o T)

(***************************************************************************)
(* C28                                                                     *)
(***************************************************************************)
OptionalDone == pc = "done (clp.inl)"

\* What the parse function of dodo.inl returns on the parser and the tokens.
dodo_inl_parse(p, argv) ==
    CASE p.shape = "CommandSelector" -> CommandSelector_parse(p.members, argv).res
      [] p.shape = "CommandWithSharedOptions" ->
             CommandWithSharedOptions_parse(p.members[1], p.members[2], argv).res
      [] p.shape = "CommandWithImplicitCommand" ->
             CommandWithImplicitCommand_parse(p.members[1], p.members[2], argv, argv[1]).res
      [] OTHER -> Parser_parse(p, argv)

\* Both parse functions read token 0 of the list.
TokenZeroExists == parser.shape = "CommandWithImplicitCommand" => args # <<>>

SameValueAsErrorCarrying ==
    LET e == dodo_inl_parse(parser, args)
    IN  /\ e.ok <=> ret.ok
        /\ e.ok => e.value = ret.value

\* Some declaration that the parser is made of has a validation check.
RECURSIVE HasCheckSomewhere(_)
HasCheckSomewhere(p) ==
    IF "checks" \in DOMAIN p THEN p.checks # <<>>
    ELSE IF "kind" \in DOMAIN p THEN p.kind = "Command" /\ HasCheckSomewhere(p.parser)
    ELSE \E k \in DOMAIN p.members : HasCheckSomewhere(p.members[k])

\* C28: for every parser and every token list, the error-carrying parse of
\* dodo.inl returns a value exactly when the optional-returning parse of
\* clp.inl returns a value, and then the two values have equal fields.
C28_SameValueAsOptionalParse ==
    (OptionalDone /\ TokenZeroExists) => SameValueAsErrorCarrying

\* The same for the parsers that have no validation check.
SameValueWithoutChecks ==
    (OptionalDone /\ TokenZeroExists /\ ~HasCheckSomewhere(parser)) => SameValueAsErrorCarrying


(***************************************************************************)
(* C29                                                                     *)
(***************************************************************************)
\* The options that have no result yet in results and whose patterns match T.
UnresolvedMatching(results, T) ==
    {k \in DOMAIN members : results[k] = <<>> /\ Matches(members[k], T)}

\* The first of them in declaration order (0: there is none).
FirstUnresolvedMatching(results, T) ==
    IF UnresolvedMatching(results, T) = {} THEN 0
    ELSE Earliest(UnresolvedMatching(results, T))

\* One loop iteration of CompoundOption::parse stores a result for the first
\* unresolved option whose patterns match the token and for no other option.
ClaimedByFirstUnresolvedMatching ==
    (parser.shape = "CompoundOption" /\ pc = "start" /\ i < Len(args)
         /\ pc' \in {"start", "done"}) =>
        LET k == FirstUnresolvedMatching(option_parse_results, args[i + 1])
        IN  IF k = 0
            THEN /\ option_parse_results' = option_parse_results
                 /\ claimed_by' = claimed_by
                 /\ pc' = "done"
            ELSE /\ claimed_by' = Append(claimed_by, k)
                 /\ option_parse_results'[k] # <<>>
                 /\ \A j \in DOMAIN members \ {k} :
                       option_parse_results'[j] = option_parse_results[j]
                 /\ i' = i + 1

\* Two options share a pattern and no other token before the second
\* occurrence of the pattern matches either: the first occurrence resolved the
\* earlier-declared option and the second one the later-declared option.
SharedPatternInDeclarationOrder ==
    parser.shape = "CompoundOption" =>
        \A a, b \in DOMAIN claimed_by : \A j, k \in DOMAIN members :
            ( /\ a < b /\ j < k
              /\ \A n \in {a, b} : \A m \in DOMAIN members :
                    Matches(members[m], args[n]) <=> m \in {j, k}
              /\ \A n \in 1..b : \A m \in {j, k} :
                    Matches(members[m], args[n]) => n \in {a, b} ) =>
                /\ claimed_by[a] = j
                /\ claimed_by[b] = k

\* C29: in CompoundOption::parse every token is claimed by at most one option,
\* the first option in declaration order that is still unresolved and whose
\* patterns match it; so when two declared options share a pattern, the first
\* occurrence of the pattern resolves the earlier-declared option and the
\* second occurrence the later-declared one.
C29_ClaimedByFirstUnresolvedOption ==
    [][ClaimedByFirstUnresolvedMatching]_vars /\ []SharedPatternInDeclarationOrder

\* width and weight share '-w': the first '-w=..' went to width, declared
\* first, and the second one to weight.
C29_Witness ==
    /\ CompoundOptionDone
    /\ Len(members) = 2
    /\ members[1].var = "width"
    /\ members[2].var = "weight"
    /\ args = <<"-w=10", "-w=foo">>
    /\ claimed_by = <<1, 2>>
    /\ option_parse_results[1] = <<Expected(<<IntV("int", 10)>>)>>
    /\ option_parse_results[2] = <<Error("Could not convert argument \"foo\" to type int")>>


(***************************************************************************)
(* C30                                                                     *)
(***************************************************************************)
\* The single option has an implicit value and attached checks, and was given
\* one token that one of its patterns matches.
ImplicitAndChecked ==
    /\ OptionDone
    /\ HasImplicitValue(opt)
    /\ HasValidationCheck(opt)
    /\ Len(args) = 1
    /\ Matches(opt, args[1])

\* C30: an implicit value is returned without running the validation
\* predicates: for an option with implicit value I and attached checks, a
\* matched token with an empty remainder (the bare token 'P', and 'P=' with
\* nothing after the '=') succeeds with I even if I does not satisfy a
\* predicate, while the same value given explicitly as 'P=V' is validated.
C30_ImplicitValueIsNotValidated ==
    ImplicitAndChecked =>
        IF Remainder(opt, args[1]) = ""
        THEN /\ ret = Expected(<<ImplicitOf(opt)>>)
             /\ PredicateCalls = <<>>
        ELSE parse_impl(opt, Remainder(opt, args[1])) = <<ImplicitOf(opt)>> =>
                 /\ PredicateCalls # <<>>
                 /\ ret.ok <=> FailingChecks(opt, ImplicitOf(opt)) = {}

\* The implicit value 7 is odd: '-w=' yields it although 'w even' is attached.
C30_Witness ==
    /\ ImplicitAndChecked
    /\ opt.patterns = <<"-w">>
    /\ opt.checks = <<positive, even>>
    /\ args = <<"-w=">>
    /\ FailingChecks(opt, ImplicitOf(opt)) = {2}
    /\ ret = Expected(<<IntV("int", 7)>>)

\* The same option given the bare token.
C30_WitnessBareToken ==
    /\ ImplicitAndChecked
    /\ opt.patterns = <<"-w">>
    /\ opt.checks = <<positive, even>>
    /\ args = <<"-w">>
    /\ ret = Expected(<<IntV("int", 7)>>)

\* The same option given the value 7 explicitly: the check 'w even' rejects it.
C30_WitnessExplicit ==
    /\ ImplicitAndChecked
    /\ opt.patterns = <<"-w">>
    /\ opt.checks = <<positive, even>>
    /\ args = <<"-w=7">>
    /\ ret = Error("Validation check failed for option -wwith argument \"7\":\n\tWidth must be even.")

====
